---------------------------- MODULE Spec2Model ----------------------------
(***************************************************************************)
(* Cashflow Monte Carlo simulation and risk assessment of                  *)
(* financial_twin_api (app/cashflow_service.py,                            *)
(* app/risk_assessment_service.py, app/loan_risk_model_service.py), and    *)
(* the digital-twin endpoints of app/simple_main.py.                       *)
(*                                                                         *)
(* Numbers.  The code computes in floats; the model computes in exact      *)
(* integers.  Money amounts of a profile are whole units; balances and     *)
(* cashflows are kept in ticks, 1 unit = 1000 ticks, so that               *)
(*   amount * factor            (factor in percent)      = amount*pct*10   *)
(*   baseline * seasonal * vol  (tenths, percent)        = b*seas*vol      *)
(*   amount * confidence        (tenths)                 = a*conf*100      *)
(* are exact.  Percentiles are kept times 100 and the mean as a fraction.  *)
(***************************************************************************)
EXTENDS Integers, Sequences, FiniteSets, TLC

\* ------------------------------------------------------------------ bounds

\* CashflowSimulator.n_simulations (default 100) as checked here.
NSimulations == 3

\* CashflowSimulator.horizon_months (default 24) as checked here.
HorizonMonths == 3

Months == 0..HorizonMonths

\* seed=None of simulate_single_trajectory (seeds are 0, 1, 2, ...)
NoSeed == 0 - 1

\* --------------------------------------------------------- small helpers

RECURSIVE SumSeq(_)
SumSeq(s) == IF s = <<>> THEN 0 ELSE Head(s) + SumSeq(Tail(s))

RECURSIVE Power(_, _)
Power(x, n) == IF n = 0 THEN 1 ELSE x * Power(x, n - 1)

RECURSIVE Gcd(_, _)
Gcd(a, b) == IF b = 0 THEN a ELSE Gcd(b, a % b)

\* a money amount in ticks
Ticks(x) == x * 1000

\* ------------------------------------------- np.random (global generator)

\* The process-wide generator of numpy is modelled as a full-period linear
\* congruential generator over RngModulus states: seeding sets the state,
\* every draw advances it and the value drawn is a function of the new state.
RngModulus == 8

RngStates == 0..(RngModulus - 1)

\* np.random.seed(seed)
Seed(seed) == seed % RngModulus

\* the state after one draw
Advance(r) == (5 * r + 3) % RngModulus

\* np.random.uniform(low, high), in percent, drawn in state r (already advanced)
Uniform(low, high, r) == low + ((high - low) * r) \div (RngModulus - 1)

ZTable == <<-2, -1, -1, 0, 0, 1, 1, 2>>

\* np.random.normal(1.0, sigma), in percent, drawn in state r (already advanced)
Normal(sigma, r) == 100 + sigma * ZTable[r + 1]

\* ----------------------------------- datetime.strptime(s, "%Y-%m-%d")

Digits == <<"0", "1", "2", "3", "4", "5", "6", "7", "8", "9">>

IsDigit(c) == \E i \in 1..10 : Digits[i] = c

DigitVal(c) == (CHOOSE i \in 1..10 : Digits[i] = c) - 1

RECURSIVE Number(_)
Number(s) == IF s = <<>> THEN 0 ELSE 10 * Number(SubSeq(s, 1, Len(s) - 1)) + DigitVal(s[Len(s)])

AllDigits(s) == \A i \in 1..Len(s) : IsDigit(s[i])

IsLeap(y) == (y % 4 = 0 /\ y % 100 # 0) \/ y % 400 = 0

DaysInMonth(y, m) ==
    IF m = 2 THEN (IF IsLeap(y) THEN 29 ELSE 28)
    ELSE IF m \in {4, 6, 9, 11} THEN 30 ELSE 31

\* The result of strptime on the characters s: ok = FALSE stands for the
\* ValueError it raises (format mismatch, unconverted data, day out of range).
Strptime(s) ==
    LET bad == [ok |-> FALSE, year |-> 0, month |-> 0, day |-> 0]
        dashes == {i \in 1..Len(s) : s[i] = "-"}
    IN  IF Cardinality(dashes) # 2 \/ ~(5 \in dashes) THEN bad
        ELSE LET d2 == CHOOSE i \in dashes : i # 5
                 ys == SubSeq(s, 1, 4)
                 ms == SubSeq(s, 6, d2 - 1)
                 ds == SubSeq(s, d2 + 1, Len(s))
             IN  IF ~(AllDigits(ys) /\ AllDigits(ms) /\ AllDigits(ds)) THEN bad
                 ELSE IF ~(Len(ms) \in 1..2 /\ Len(ds) \in 1..2) THEN bad
                 ELSE LET y == Number(ys)
                          m == Number(ms)
                          d == Number(ds)
                      IN  IF y >= 1 /\ m \in 1..12 /\ d >= 1 /\ d <= DaysInMonth(y, m)
                          THEN [ok |-> TRUE, year |-> y, month |-> m, day |-> d]
                          ELSE bad

\* ------------------------------------------------------ profile entries

\* Dictionaries are records; a missing key is a field the record lacks.
HasKey(d, k) == k \in DOMAIN d

\* CashflowSimulator.calculate_loan_payment, in ticks (rounded down to a tick).
\* r = loan_interest_rate / 100 / 12 is the fraction a / b in lowest terms.
calculate_loan_payment(p) ==
    LET P == Ticks(p.loan_amount)
        n == p.loan_duration_months
        g == Gcd(p.loan_interest_rate, 1200)
        a == p.loan_interest_rate \div g
        b == 1200 \div g
    IN  IF p.loan_interest_rate = 0
        THEN P \div n
        ELSE (P * a * Power(a + b, n)) \div (b * (Power(a + b, n) - Power(b, n)))

\* current_month = month % 12 if month % 12 != 0 else 12
CalendarMonth(month) == IF month % 12 # 0 THEN month % 12 ELSE 12

\* the (low, high) bounds of reliability_factor, in percent
ReliabilityFactor(rel) ==
    CASE rel = "high" -> <<95, 105>>
      [] rel = "medium" -> <<80, 115>>
      [] rel = "low" -> <<60, 130>>

\* Income of one month over the first j streams, drawing in stream order
\* from generator state r.  err stands for the KeyError of
\* reliability_factor[stream['reliability']].
RECURSIVE IncomeDraws(_, _, _)
IncomeDraws(streams, j, r) ==
    IF j = 0 THEN [total |-> 0, rng |-> r, err |-> FALSE]
    ELSE LET prev == IncomeDraws(streams, j - 1, r)
             stream == streams[j]
         IN  IF prev.err THEN prev
             ELSE IF ~HasKey(stream, "reliability")
                     \/ stream.reliability \notin {"high", "medium", "low"}
             THEN [prev EXCEPT !.err = TRUE]
             ELSE LET r2 == Advance(prev.rng)
                      lh == ReliabilityFactor(stream.reliability)
                  IN  [total |-> prev.total + stream.amount * Uniform(lh[1], lh[2], r2) * 10,
                       rng |-> r2, err |-> FALSE]

\* exp_cat.get('seasonal_multipliers', {}).get(current_month, 1.0), in tenths
SeasonalMult(exp_cat, cm) ==
    IF HasKey(exp_cat, "seasonal_multipliers") /\ cm \in DOMAIN exp_cat.seasonal_multipliers
    THEN exp_cat.seasonal_multipliers[cm]
    ELSE 10

\* Expenses of one month over the first j categories.
RECURSIVE ExpenseDraws(_, _, _, _)
ExpenseDraws(expenses, j, month, r) ==
    IF j = 0 THEN [total |-> 0, rng |-> r]
    ELSE LET prev == ExpenseDraws(expenses, j - 1, month, r)
             exp_cat == expenses[j]
             r2 == Advance(prev.rng)
         IN  [total |-> prev.total
                        + exp_cat.monthly_baseline
                          * SeasonalMult(exp_cat, CalendarMonth(month))
                          * Normal(exp_cat.volatility, r2),
              rng |-> r2]

\* mutant: the obligation stops one month early
ObligationActiveStrict(obl, month) == obl.remaining_months > month

ObligationActive(obl, month) == obl.remaining_months >= month

\* sum(obl['monthly_amount'] for obl in obligations if remaining_months >= month)
Obligations(p, month) ==
    SumSeq([j \in 1..Len(p.obligations) |->
              IF ObligationActive(p.obligations[j], month)
              THEN Ticks(p.obligations[j].monthly_amount) ELSE 0])

\* mutant: a life event is charged once, in the month numbered start_month
EventExpenseOnce(p, month) ==
    SumSeq([j \in 1..Len(p.life_events) |->
              IF month = p.life_events[j].start_month
              THEN Ticks(p.life_events[j].expense_impact) ELSE 0])

\* the life events whose start_month is the calendar month
EventExpense(p, month) ==
    SumSeq([j \in 1..Len(p.life_events) |->
              IF CalendarMonth(month) = p.life_events[j].start_month
              THEN Ticks(p.life_events[j].expense_impact) ELSE 0])

\* loan_payment if month <= loan_duration_months else 0
LoanPmt(p, month) ==
    IF month <= p.loan_duration_months THEN calculate_loan_payment(p) ELSE 0

\* mutant: every confidence counts in full
ConfFactorFlat(conf) == 10

\* conf_factor, in tenths
ConfFactor(conf) ==
    CASE conf = "high" -> 10
      [] conf = "medium" -> 8
      [] conf = "low" -> 6

\* months_until = (event_date.year - 2026) * 12 + event_date.month - 1
MonthsUntil(date) == (date.year - 2026) * 12 + date.month - 1

\* mutant: an entry whose date does not parse is taken as due in month 1
FutureIncomeEntryDueNow(fut_inc, month) ==
    LET event_date == Strptime(fut_inc.expected_date)
        due == IF event_date.ok THEN MonthsUntil(event_date) ELSE 1
    IN  IF month # due THEN [amount |-> 0, raised |-> ~event_date.ok]
        ELSE IF ~HasKey(fut_inc, "confidence")
        THEN [amount |-> 0, raised |-> TRUE]
        ELSE [amount |-> fut_inc.expected_amount * ConfFactor(fut_inc.confidence) * 100,
              raised |-> FALSE]

\* One future-income entry in one month: the body of the try block.  raised
\* is the exception the except clause catches (ValueError of strptime,
\* KeyError of a missing confidence) and turns into a logged warning.
FutureIncomeEntry(fut_inc, month) ==
    LET event_date == Strptime(fut_inc.expected_date)
    IN  IF ~event_date.ok THEN [amount |-> 0, raised |-> TRUE]
        ELSE IF month # MonthsUntil(event_date) THEN [amount |-> 0, raised |-> FALSE]
        ELSE IF ~HasKey(fut_inc, "confidence")
                \/ fut_inc.confidence \notin {"high", "medium", "low"}
        THEN [amount |-> 0, raised |-> TRUE]
        ELSE [amount |-> fut_inc.expected_amount * ConfFactor(fut_inc.confidence) * 100,
              raised |-> FALSE]

FutureIncome(p, month) ==
    SumSeq([j \in 1..Len(p.future_incomes) |->
              FutureIncomeEntry(p.future_incomes[j], month).amount])

\* mutant: the life-event expense is left out of the net cashflow
NetCashflowNoEvents(income, future_income, expenses, obligations, loan_pmt, event_expense) ==
    income + future_income - expenses - obligations - loan_pmt

\* net_cashflow = income + future_income - expenses - obligations - loan_pmt - event_expense
NetCashflow(income, future_income, expenses, obligations, loan_pmt, event_expense) ==
    income + future_income - expenses - obligations - loan_pmt - event_expense

\* One iteration of the month loop: the draws of the month, in the order of
\* the code, and the balance update.  t is the trajectory so far.
MonthStep(p, t, month) ==
    LET inc == IncomeDraws(p.income_streams, Len(p.income_streams), t.rng)
    IN  IF inc.err THEN [t EXCEPT !.rng = inc.rng, !.err = TRUE]
        ELSE LET exp == ExpenseDraws(p.expenses, Len(p.expenses), month, inc.rng)
                 net == NetCashflow(inc.total, FutureIncome(p, month), exp.total,
                                    Obligations(p, month), LoanPmt(p, month),
                                    EventExpense(p, month))
             IN  [balance |-> [t.balance EXCEPT ![month] = t.balance[month - 1] + net],
                  rng |-> exp.rng, err |-> FALSE]

\* mutant: the seed is never applied, the draws continue the global stream
SeedStepIgnored(seed, r) == r

\* if seed is not None: np.random.seed(seed)
SeedStep(seed, r) == IF seed # NoSeed THEN Seed(seed) ELSE r

\* balance = np.zeros(horizon_months + 1); balance[0] = current_balance
StartTrajectory(p, r) ==
    [balance |-> [m \in Months |-> IF m = 0 THEN Ticks(p.current_balance) ELSE 0],
     rng |-> r, err |-> FALSE]

RECURSIVE MonthLoop(_, _, _)
MonthLoop(p, t, month) ==
    IF month = 0 THEN t
    ELSE LET prev == MonthLoop(p, t, month - 1)
         IN  IF prev.err THEN prev ELSE MonthStep(p, prev, month)

\* CashflowSimulator.simulate_single_trajectory(seed) called with the global
\* generator in state r: the balances, the state the generator is left in,
\* and whether it raised.
simulate_single_trajectory(p, seed, r) ==
    MonthLoop(p, StartTrajectory(p, SeedStep(seed, r)), HorizonMonths)

\* ------------------------------------------------------------- profiles

Chars(y1, y2, y3, y4, s1, m1, m2, s2, d1, d2) == <<y1, y2, y3, y4, s1, m1, m2, s2, d1, d2>>

\* expected_date strings, character by character
Date20260201 == Chars("2", "0", "2", "6", "-", "0", "2", "-", "0", "1")
Date20260315 == Chars("2", "0", "2", "6", "-", "0", "3", "-", "1", "5")
Date20270110 == Chars("2", "0", "2", "7", "-", "0", "1", "-", "1", "0")
DateSlashes == Chars("1", "5", "/", "0", "3", "/", "2", "0", "2", "6")
Date20260230 == Chars("2", "0", "2", "6", "-", "0", "2", "-", "3", "0")
Date20261301 == Chars("2", "0", "2", "6", "-", "1", "3", "-", "0", "1")
Date20260120 == Chars("2", "0", "2", "6", "-", "0", "1", "-", "2", "0")
Date20270305 == Chars("2", "0", "2", "7", "-", "0", "3", "-", "0", "5")
Date20280115 == Chars("2", "0", "2", "8", "-", "0", "1", "-", "1", "5")
Date20280201 == Chars("2", "0", "2", "8", "-", "0", "2", "-", "0", "1")

NoSeasons == [m \in {} |-> 10]

\* The example household of LoanAssessmentRequest, scaled down: one salary,
\* one fixed expense, no obligations, events or future income.
BaseProfile ==
    [current_balance |-> 200,
     income_streams |-> <<[type |-> "salary", amount |-> 100, reliability |-> "high",
                           growth_rate |-> 3]>>,
     expenses |-> <<[category |-> "fixed", monthly_baseline |-> 80, volatility |-> 0,
                     seasonal_multipliers |-> NoSeasons]>>,
     obligations |-> <<>>,
     life_events |-> <<>>,
     future_incomes |-> <<>>,
     loan_amount |-> 100, loan_duration_months |-> 2, loan_interest_rate |-> 12,
     household_size |-> 2, dependents |-> 0,
     employment_type |-> "salaried", marital_status |-> "single"]

\* two unreliable streams, a volatile seasonal expense, an obligation that
\* ends inside the horizon, a life event and a future income
MixedProfile ==
    [BaseProfile EXCEPT
       !.current_balance = 0,
       !.income_streams = <<[type |-> "freelance", amount |-> 60, reliability |-> "low",
                             growth_rate |-> 0],
                            [type |-> "rental", amount |-> 40, reliability |-> "medium",
                             growth_rate |-> 1]>>,
       !.expenses = <<[category |-> "variable", monthly_baseline |-> 150, volatility |-> 10,
                       seasonal_multipliers |-> (2 :> 15)],
                      [category |-> "fixed", monthly_baseline |-> 50, volatility |-> 0]>>,
       !.obligations = <<[type |-> "loan", monthly_amount |-> 30, remaining_months |-> 2]>>,
       !.life_events = <<[name |-> "wedding", start_month |-> 2, duration_months |-> 1,
                          expense_impact |-> 40]>>,
       !.future_incomes = <<[type |-> "bonus", expected_date |-> Date20260315,
                             expected_amount |-> 50, confidence |-> "high"]>>]

\* a household in deficit whose balance dips below -500, recovers on a
\* future income in month 2 and dips again
StressedProfile ==
    [BaseProfile EXCEPT
       !.current_balance = -500,
       !.expenses = <<[category |-> "fixed", monthly_baseline |-> 400, volatility |-> 0,
                       seasonal_multipliers |-> NoSeasons]>>,
       !.obligations = <<[type |-> "credit_card", monthly_amount |-> 300, remaining_months |-> 1],
                         [type |-> "loan", monthly_amount |-> 200, remaining_months |-> 5]>>,
       !.future_incomes = <<[type |-> "asset_sale", expected_date |-> Date20260315,
                             expected_amount |-> 2000, confidence |-> "medium"]>>,
       !.loan_interest_rate = 0, !.loan_duration_months = 4]

\* an income stream without the 'reliability' key
NoReliabilityProfile ==
    [BaseProfile EXCEPT
       !.income_streams = <<[type |-> "salary", amount |-> 100, reliability |-> "high",
                             growth_rate |-> 3],
                            [type |-> "freelance", amount |-> 50, growth_rate |-> 0]>>]

\* a future income without the 'confidence' key, due inside the horizon
NoConfidenceProfile ==
    [BaseProfile EXCEPT
       !.future_incomes = <<[type |-> "bonus", expected_date |-> Date20260201,
                             expected_amount |-> 70]>>]

\* future incomes with dates strptime rejects, beside one it accepts
BadDateProfile ==
    [MixedProfile EXCEPT
       !.future_incomes = <<[type |-> "bonus", expected_date |-> DateSlashes,
                             expected_amount |-> 90, confidence |-> "high"],
                            [type |-> "bonus", expected_date |-> Date20260201,
                             expected_amount |-> 50, confidence |-> "low"],
                            [type |-> "inheritance", expected_date |-> Date20260230,
                             expected_amount |-> 70, confidence |-> "medium"]>>]

\* a balance hovering around zero, a future income beyond the horizon
ThinProfile ==
    [BaseProfile EXCEPT
       !.current_balance = 0,
       !.expenses = <<[category |-> "variable", monthly_baseline |-> 50, volatility |-> 10,
                       seasonal_multipliers |-> (3 :> 20)]>>,
       !.obligations = <<[type |-> "subscription", monthly_amount |-> 10, remaining_months |-> 3]>>,
       !.future_incomes = <<[type |-> "bonus", expected_date |-> Date20270110,
                             expected_amount |-> 50, confidence |-> "high"],
                            [type |-> "bonus", expected_date |-> Date20261301,
                             expected_amount |-> 50, confidence |-> "high"]>>,
       !.loan_duration_months = 1]

Profiles ==
    {BaseProfile, MixedProfile, StressedProfile, NoReliabilityProfile,
     NoConfidenceProfile, BadDateProfile, ThinProfile}

\* ------------------------------------------------- aggregation (numpy)

RECURSIVE Insert(_, _)
Insert(x, s) ==
    IF s = <<>> THEN <<x>>
    ELSE IF x <= Head(s) THEN <<x>> \o s
    ELSE <<Head(s)>> \o Insert(x, Tail(s))

RECURSIVE Sorted(_)
Sorted(s) == IF s = <<>> THEN <<>> ELSE Insert(Head(s), Sorted(Tail(s)))

Sims == 0..(NSimulations - 1)

\* trajectories[:, month]
Column(trajectories, month) == [i \in 1..NSimulations |-> trajectories[i - 1][month]]

\* mutant: the interpolation runs over the values in simulation order
PercentileUnsorted(a, q) ==
    LET pos == q * (Len(a) - 1)
        lo == pos \div 100
        rem == pos % 100
    IN  IF rem = 0 THEN 100 * a[lo + 1]
        ELSE 100 * a[lo + 1] + rem * (a[lo + 2] - a[lo + 1])

\* np.percentile(a, q) with linear interpolation, times 100: the virtual index
\* is q/100 * (n - 1), between the two nearest order statistics.
Percentile(a, q) ==
    LET sorted == Sorted(a)
        pos == q * (Len(a) - 1)
        lo == pos \div 100
        rem == pos % 100
    IN  IF rem = 0 THEN 100 * sorted[lo + 1]
        ELSE 100 * sorted[lo + 1] + rem * (sorted[lo + 2] - sorted[lo + 1])

\* np.mean(a), as a fraction
Mean(a) == [num |-> SumSeq(a), den |-> Len(a)]

\* the dictionary run_monte_carlo returns
Aggregate(trajectories) ==
    [kind |-> "results",
     trajectories |-> trajectories,
     p10 |-> [m \in Months |-> Percentile(Column(trajectories, m), 10)],
     p50 |-> [m \in Months |-> Percentile(Column(trajectories, m), 50)],
     p90 |-> [m \in Months |-> Percentile(Column(trajectories, m), 90)],
     mean |-> [m \in Months |-> Mean(Column(trajectories, m))]]

\* mutant: a balance equal to the threshold counts as stressed
BelowOrEqual(balance, threshold) == balance <= threshold

\* mutant: the comparison is the wrong way round
BelowFlipped(balance, threshold) == balance > threshold

\* trajectories[:, month] < threshold
Below(balance, threshold) == balance < threshold

\* the loop of calculate_stress_probability: np.mean of the comparison, as a fraction
StressProb(trajectories, threshold) ==
    [month \in Months |->
       [num |-> Cardinality({i \in Sims : Below(trajectories[i][month], threshold)}),
        den |-> NSimulations]]

\* mutant: the run counter is never reset
RECURSIVE DefaultScanNoReset(_, _, _, _, _)
DefaultScanNoReset(median, threshold, consecutive_months, m, count) ==
    IF m > HorizonMonths THEN FALSE
    ELSE IF median[m] < 100 * threshold
         THEN IF count + 1 >= consecutive_months THEN TRUE
              ELSE DefaultScanNoReset(median, threshold, consecutive_months, m + 1, count + 1)
         ELSE DefaultScanNoReset(median, threshold, consecutive_months, m + 1, count)

\* The scan of identify_default over the median series from entry m on, with
\* the run counter at count.  The series holds the median times 100.
RECURSIVE DefaultScan(_, _, _, _, _)
DefaultScan(median, threshold, consecutive_months, m, count) ==
    IF m > HorizonMonths THEN FALSE
    ELSE IF median[m] < 100 * threshold
         THEN IF count + 1 >= consecutive_months THEN TRUE
              ELSE DefaultScan(median, threshold, consecutive_months, m + 1, count + 1)
         ELSE DefaultScan(median, threshold, consecutive_months, m + 1, 0)

\* mutant: the scan reads the pessimistic series
DefaultSeriesP10(res) == res.p10

\* median_trajectory = results['p50']
DefaultSeries(res) == res.p50

\* the list get_cashflow_projection builds
Projection(res, stress_prob) ==
    [month \in Months |->
       [month |-> month, p10 |-> res.p10[month], median |-> res.p50[month],
        p90 |-> res.p90[month], stress_probability |-> stress_prob[month]]]

\* mutant: the confidence is looked up with a default, only reliability raises
ExtractFeaturesLenient(p) ==
    \E j \in 1..Len(p.income_streams) : ~HasKey(p.income_streams[j], "reliability")

\* reliability_scores[s['reliability']] and conf_scores[fi['confidence']] of
\* extract_features raise KeyError on an entry without the key
ExtractFeaturesRaises(p) ==
    \/ \E j \in 1..Len(p.income_streams) :
         ~HasKey(p.income_streams[j], "reliability")
         \/ p.income_streams[j].reliability \notin {"high", "medium", "low"}
    \/ \E j \in 1..Len(p.future_incomes) :
         ~HasKey(p.future_incomes[j], "confidence")
         \/ p.future_incomes[j].confidence \notin {"high", "medium", "low"}

\* None, and whatever else stands for "no value yet"
NoValue == [kind |-> "none"]

\* ------------------------------------- features (ModelService.extract_features)

\* Ratios are exact fractions with a positive denominator; scores and the
\* averaged features are in thousandths.  NaN stands for numpy's nan (the mean
\* of an empty list, 0.0 / 0), whose comparisons are all false.
Frac(num, den) == [num |-> num, den |-> den]

\* x < tenths / 10 and x > tenths / 10 for a fraction x
FracLT(x, tenths) == x.num * 10 < tenths * x.den

FracGT(x, tenths) == x.num * 10 > tenths * x.den

NaN == 0 - 1000000000

IsNaN(x) == x = NaN

\* np.mean of a list of thousandths
MeanOf(s) == IF Len(s) = 0 THEN NaN ELSE SumSeq(s) \div Len(s)

\* the largest k in lo..hi with k * k <= x
RECURSIVE IsqrtIn(_, _, _)
IsqrtIn(x, lo, hi) ==
    IF lo >= hi THEN lo
    ELSE LET mid == (lo + hi + 1) \div 2
         IN  IF mid * mid <= x THEN IsqrtIn(x, mid, hi) ELSE IsqrtIn(x, lo, mid - 1)

Isqrt(x) == IsqrtIn(x, 0, 40000)

MonthlyIncome(p) ==
    SumSeq([j \in 1..Len(p.income_streams) |-> Ticks(p.income_streams[j].amount)])

MonthlyExpenses(p) ==
    SumSeq([j \in 1..Len(p.expenses) |-> Ticks(p.expenses[j].monthly_baseline)])

MonthlyObligations(p) ==
    SumSeq([j \in 1..Len(p.obligations) |-> Ticks(p.obligations[j].monthly_amount)])

\* mutant: the zero-rate payment is the whole principal
FeatureLoanPaymentLump(p) ==
    IF p.loan_interest_rate = 0 THEN Ticks(p.loan_amount) ELSE calculate_loan_payment(p)

\* the loan payment of extract_features, in ticks; r is the fraction a / b
FeatureLoanPayment(p) ==
    LET P == Ticks(p.loan_amount)
        n == p.loan_duration_months
        g == Gcd(p.loan_interest_rate, 1200)
        a == p.loan_interest_rate \div g
        b == 1200 \div g
    IN  IF p.loan_interest_rate = 0
        THEN P \div n
        ELSE (P * a * Power(a + b, n)) \div (b * (Power(a + b, n) - Power(b, n)))

\* reliability_scores and conf_scores, in thousandths
reliability_scores(rel) ==
    CASE rel = "high" -> 1000
      [] rel = "medium" -> 600
      [] rel = "low" -> 300

\* np.std(income_amounts) / monthly_income if len(income_amounts) > 1 else 0.
\* The quotient is taken whatever monthly_income is: amounts that sum to 0 are
\* all 0, so it is 0.0 / 0, numpy's nan.
IncomeVolatility(p) ==
    LET n == Len(p.income_streams)
        total == SumSeq([j \in 1..n |-> p.income_streams[j].amount])
        squares == SumSeq([j \in 1..n |-> p.income_streams[j].amount * p.income_streams[j].amount])
    IN  IF n > 1
        THEN IF total = 0 THEN NaN
             ELSE (Isqrt((n * squares - total * total) * 10000) * 10) \div (n * total)
        ELSE 0

\* the features whose computation divides by monthly_income (or by
\* monthly_income * 12) for this profile
DivisionsByIncome(p) ==
    (IF Len(p.income_streams) > 1 THEN {"income_volatility"} ELSE {})
    \cup (IF MonthlyIncome(p) > 0
          THEN {"debt_to_income_ratio", "fixed_expense_ratio", "expense_to_income_ratio",
                "cashflow_margin", "loan_to_income_ratio", "loan_payment_to_income"}
          ELSE {})

\* max_seasonal_multiplier over the first j expenses, in tenths
RECURSIVE MaxSeasonal(_, _)
MaxSeasonal(expenses, j) ==
    IF j = 0 THEN 10
    ELSE LET prev == MaxSeasonal(expenses, j - 1)
             e == expenses[j]
         IN  IF HasKey(e, "seasonal_multipliers") /\ DOMAIN e.seasonal_multipliers # {}
             THEN LET top == CHOOSE v \in {e.seasonal_multipliers[m] : m \in DOMAIN e.seasonal_multipliers} :
                                \A m \in DOMAIN e.seasonal_multipliers : e.seasonal_multipliers[m] <= v
                  IN  IF top > prev THEN top ELSE prev
             ELSE prev

\* num / monthly_income if monthly_income > 0 else 999
IncomeRatio(num, monthly_income) ==
    IF monthly_income > 0 THEN Frac(num, monthly_income) ELSE Frac(999, 1)

\* the feature dictionary, for a profile extract_features accepts
extract_features(p) ==
    LET monthly_income == MonthlyIncome(p)
        monthly_expenses == MonthlyExpenses(p)
        monthly_obligations == MonthlyObligations(p)
        loan_payment == FeatureLoanPayment(p)
        fixed_expenses ==
            SumSeq([j \in 1..Len(p.expenses) |->
                      IF p.expenses[j].category = "fixed"
                      THEN Ticks(p.expenses[j].monthly_baseline) ELSE 0])
        total_monthly_outflow == monthly_expenses + monthly_obligations + loan_payment
        net_monthly_cashflow == monthly_income - total_monthly_outflow
    IN  [monthly_income |-> monthly_income,
         has_freelance_income |->
             \E j \in 1..Len(p.income_streams) : p.income_streams[j].type = "freelance",
         has_multiple_income_streams |-> Len(p.income_streams) > 1,
         avg_income_reliability |->
             MeanOf([j \in 1..Len(p.income_streams) |->
                       reliability_scores(p.income_streams[j].reliability)]),
         income_volatility |-> IncomeVolatility(p),
         avg_income_growth_rate |->
             MeanOf([j \in 1..Len(p.income_streams) |-> p.income_streams[j].growth_rate * 10]),
         monthly_expenses |-> monthly_expenses,
         fixed_expenses |-> fixed_expenses,
         expense_volatility |->
             MeanOf([j \in 1..Len(p.expenses) |-> p.expenses[j].volatility * 10]),
         max_seasonal_multiplier |-> MaxSeasonal(p.expenses, Len(p.expenses)),
         monthly_obligations |-> monthly_obligations,
         debt_to_income_ratio |-> IncomeRatio(monthly_obligations + loan_payment, monthly_income),
         fixed_expense_ratio |->
             IncomeRatio(monthly_obligations + loan_payment + fixed_expenses, monthly_income),
         expense_to_income_ratio |-> IncomeRatio(total_monthly_outflow, monthly_income),
         buffer_months |->
             IF total_monthly_outflow > 0
             THEN Frac(Ticks(p.current_balance), total_monthly_outflow) ELSE Frac(0, 1),
         net_monthly_cashflow |-> net_monthly_cashflow,
         cashflow_margin |->
             IF monthly_income > 0 THEN Frac(net_monthly_cashflow, monthly_income)
             ELSE Frac(0 - 999, 1),
         household_size |-> p.household_size,
         dependents |-> p.dependents,
         loan_amount |-> Ticks(p.loan_amount),
         loan_duration_months |-> p.loan_duration_months,
         loan_interest_rate |-> p.loan_interest_rate,
         loan_payment |-> loan_payment,
         loan_to_income_ratio |->
             IF monthly_income > 0 THEN Frac(Ticks(p.loan_amount), monthly_income * 12)
             ELSE Frac(999, 1),
         loan_payment_to_income |-> IncomeRatio(loan_payment, monthly_income),
         is_salaried |-> p.employment_type = "salaried",
         is_married |-> p.marital_status = "married"]

\* ------------------------------------- scoring (RiskAssessmentService)

\* a whole number of points, in thousandths
Points(x) == x * 1000

\* mutant: a score of exactly 25, 50 or 75 falls in the lower category
categorize_risk_inclusive(risk_score) ==
    IF risk_score <= 25 THEN "low"
    ELSE IF risk_score <= 50 THEN "medium"
    ELSE IF risk_score <= 75 THEN "high"
    ELSE "very_high"

categorize_risk(risk_score) ==
    IF risk_score < 25 THEN "low"
    ELSE IF risk_score < 50 THEN "medium"
    ELSE IF risk_score < 75 THEN "high"
    ELSE "very_high"

\* mutant: the additional checks of the medium band decide
get_recommendation_checked(risk_score, features) ==
    IF risk_score < 30 THEN "approve"
    ELSE IF risk_score < 60
    THEN IF FracLT(features.debt_to_income_ratio, 4) /\ FracGT(features.buffer_months, 30)
         THEN "approve"
         ELSE "review"
    ELSE "reject"

get_recommendation(risk_score, features) ==
    IF risk_score < 30 THEN "approve"
    ELSE IF risk_score < 60
    THEN IF FracLT(features.debt_to_income_ratio, 4) /\ FracGT(features.buffer_months, 30)
         THEN "review"
         ELSE "review"
    ELSE "reject"

\* max(0, min(100, score)): min keeps 100 when the comparison with nan is false
Clamp(score) ==
    IF IsNaN(score) THEN Points(100)
    ELSE IF score > Points(100) THEN Points(100)
    ELSE IF score < 0 THEN 0
    ELSE score

assess_income_stability(features) ==
    LET score ==
            IF IsNaN(features.avg_income_reliability)
               \/ IsNaN(features.income_volatility)
               \/ IsNaN(features.avg_income_growth_rate)
            THEN NaN
            ELSE Points(50)
                 + features.avg_income_reliability * 20
                 + (IF features.has_multiple_income_streams THEN Points(10) ELSE 0)
                 - (IF features.has_freelance_income THEN Points(15) ELSE 0)
                 - features.income_volatility * 30
                 + features.avg_income_growth_rate
    IN  Clamp(score)

\* mutant: a ratio equal to a bound falls in the better band
assess_debt_burden_inclusive(features) ==
    LET dti == features.debt_to_income_ratio
    IN  IF ~FracGT(dti, 2) THEN Points(100)
        ELSE IF ~FracGT(dti, 3) THEN Points(85)
        ELSE IF ~FracGT(dti, 4) THEN Points(70)
        ELSE IF ~FracGT(dti, 5) THEN Points(50)
        ELSE IF ~FracGT(dti, 6) THEN Points(30)
        ELSE Points(10)

assess_debt_burden(features) ==
    LET dti == features.debt_to_income_ratio
    IN  IF FracLT(dti, 2) THEN Points(100)
        ELSE IF FracLT(dti, 3) THEN Points(85)
        ELSE IF FracLT(dti, 4) THEN Points(70)
        ELSE IF FracLT(dti, 5) THEN Points(50)
        ELSE IF FracLT(dti, 6) THEN Points(30)
        ELSE Points(10)

assess_liquidity(features) ==
    LET buffer == features.buffer_months
    IN  IF FracGT(buffer, 60) THEN Points(100)
        ELSE IF FracGT(buffer, 40) THEN Points(85)
        ELSE IF FracGT(buffer, 30) THEN Points(70)
        ELSE IF FracGT(buffer, 20) THEN Points(50)
        ELSE IF FracGT(buffer, 10) THEN Points(30)
        ELSE Points(10)

assess_cashflow_margin(features) ==
    LET margin == features.cashflow_margin
    IN  IF FracGT(margin, 3) THEN Points(100)
        ELSE IF FracGT(margin, 2) THEN Points(85)
        ELSE IF FracGT(margin, 1) THEN Points(70)
        ELSE IF FracGT(margin, 0) THEN Points(50)
        ELSE IF FracGT(margin, 0 - 1) THEN Points(30)
        ELSE Points(10)

\* seasonal - 1.0 is (max_seasonal_multiplier - 10) tenths
assess_expense_stability(features) ==
    LET volatility == features.expense_volatility
        seasonal == features.max_seasonal_multiplier
    IN  Clamp(IF IsNaN(volatility) THEN NaN
              ELSE Points(100) - volatility * 200 - (seasonal - 10) * 100 * 50)

\* mutant: a score of exactly 70 or 40 takes the lower label
get_status_strict(score) ==
    IF score > Points(70) THEN "good"
    ELSE IF score > Points(40) THEN "warning"
    ELSE "critical"

get_status(score) ==
    IF score >= Points(70) THEN "good"
    ELSE IF score >= Points(40) THEN "warning"
    ELSE "critical"

BreakdownEntry(category, score) ==
    [category |-> category, score |-> score, status |-> get_status(score)]

generate_risk_breakdown(features, risk_score) ==
    <<BreakdownEntry("Income Stability", assess_income_stability(features)),
      BreakdownEntry("Debt Burden", assess_debt_burden(features)),
      BreakdownEntry("Liquidity", assess_liquidity(features)),
      BreakdownEntry("Cashflow Margin", assess_cashflow_margin(features)),
      BreakdownEntry("Expense Stability", assess_expense_stability(features))>>

\* assess_risk simulates horizon_months = 24
AssessHorizon == 24

\* cashflow_projection[month] for a month of those 24: the model simulates
\* HorizonMonths months, and the entry is read at the model month that lies as
\* far into the horizon
EntryAt(cashflow_projection, month) ==
    cashflow_projection[(month * HorizonMonths) \div AssessHorizon]

\* for month in [6, 12, 18, 24]
StressMonths == <<6, 12, 18, 24>>

\* stress_probability > 0.5
StressHigh(entry) == 2 * entry.stress_probability.num > entry.stress_probability.den

\* mutant: the scan goes on after a hit
RECURSIVE StressWarningsNoBreak(_, _)
StressWarningsNoBreak(cashflow_projection, k) ==
    IF k > Len(StressMonths) THEN <<>>
    ELSE (IF StressHigh(EntryAt(cashflow_projection, StressMonths[k]))
          THEN <<[warning |-> "stress", month |-> StressMonths[k]]>>
          ELSE <<>>)
         \o StressWarningsNoBreak(cashflow_projection, k + 1)

\* the scan from the k-th sampled month on; break after the first warning
RECURSIVE StressWarnings(_, _)
StressWarnings(cashflow_projection, k) ==
    IF k > Len(StressMonths) THEN <<>>
    ELSE IF StressHigh(EntryAt(cashflow_projection, StressMonths[k]))
    THEN <<[warning |-> "stress", month |-> StressMonths[k]]>>
    ELSE StressWarnings(cashflow_projection, k + 1)

generate_warnings(features, cashflow_projection) ==
    (IF FracGT(features.debt_to_income_ratio, 5) THEN <<[warning |-> "debt_to_income"]>> ELSE <<>>)
    \o (IF FracLT(features.buffer_months, 20) THEN <<[warning |-> "buffer"]>> ELSE <<>>)
    \o (IF features.net_monthly_cashflow < 0 THEN <<[warning |-> "cashflow"]>> ELSE <<>>)
    \o (IF ~IsNaN(features.expense_volatility) /\ features.expense_volatility > 300
        THEN <<[warning |-> "expense_volatility"]>> ELSE <<>>)
    \o (IF ~IsNaN(features.avg_income_reliability) /\ features.avg_income_reliability < 700
        THEN <<[warning |-> "income_reliability"]>> ELSE <<>>)
    \o StressWarnings(cashflow_projection, 1)

\* return recommendations if recommendations else None
generate_recommendations(features, risk_score) ==
    LET recommendations ==
            IF risk_score > 30 /\ risk_score < 70
            THEN (IF FracLT(features.buffer_months, 30) THEN <<"collateral">> ELSE <<>>)
                 \o (IF FracGT(features.debt_to_income_ratio, 4) THEN <<"reduce_amount">> ELSE <<>>)
                 \o (IF features.loan_duration_months < 36 THEN <<"extend_duration">> ELSE <<>>)
                 \o (IF features.has_freelance_income THEN <<"bank_statements">> ELSE <<>>)
                 \o <<"automatic_payments">>
            ELSE <<>>
    IN  IF recommendations # <<>>
        THEN [kind |-> "list", items |-> recommendations]
        ELSE NoValue

\* mutant: the recommendations are generated whatever the score
recommendations_for_approval_unguarded(features, risk_score) ==
    [kind |-> "list", items |-> <<"automatic_payments">>]

\* self._generate_recommendations(features, risk_score) if risk_score > 30 else None
recommendations_for_approval(features, risk_score) ==
    IF risk_score > 30 THEN generate_recommendations(features, risk_score) ELSE NoValue

\* The dictionary assess_risk compiles, from the features, the classifier's
\* score and the projection.  top_risk_drivers and
\* top_protective_factors come from the SHAP explainer and are left out.
Assessment(features, risk_score, cashflow_projection) ==
    [kind |-> "assessment",
     status |-> 200,
     risk_score |-> risk_score,
     risk_category |-> categorize_risk(risk_score),
     recommendation |-> get_recommendation(risk_score, features),
     monthly_income |-> features.monthly_income,
     monthly_expenses |-> features.monthly_expenses,
     monthly_loan_payment |-> features.loan_payment,
     debt_to_income_ratio |-> features.debt_to_income_ratio,
     net_monthly_cashflow |-> features.net_monthly_cashflow,
     risk_breakdown |-> generate_risk_breakdown(features, risk_score),
     cashflow_projection |-> cashflow_projection,
     default_probability_12_months |-> EntryAt(cashflow_projection, 12).stress_probability,
     default_probability_24_months |-> EntryAt(cashflow_projection, 24).stress_probability,
     buffer_months |-> features.buffer_months,
     warnings |-> generate_warnings(features, cashflow_projection),
     recommendations_for_approval |-> recommendations_for_approval(features, risk_score)]

\* ----------------------------------------------------- routes (routes.py)

\* mutant: predict_risk does not look at _loaded
PredictRiskNeverRaises(isLoaded) == FALSE

\* if not self._loaded: raise RuntimeError
PredictRiskRaises(isLoaded) == ~isLoaded

\* get_model_service: HTTPException(status_code=503) when model_service is None
ServiceUnavailable ==
    [kind |-> "error", error |-> "HTTPException", raised_by |-> "get_model_service",
     status |-> 503]

\* the except clauses of assess_loan_risk: ValueError gives 400, any other
\* exception 500
assess_loan_risk_status(error) == IF error = "ValueError" THEN 400 ELSE 500

RouteError(error, raised_by) ==
    [kind |-> "error", error |-> error, raised_by |-> raised_by,
     status |-> assess_loan_risk_status(error)]

\* the body of quick_risk_score; every exception gives 500
quick_risk_score(p, isCreated, isLoaded, risk_score) ==
    IF ~isCreated THEN ServiceUnavailable
    ELSE IF ExtractFeaturesRaises(p)
    THEN [kind |-> "error", error |-> "KeyError", raised_by |-> "extract_features", status |-> 500]
    ELSE IF PredictRiskRaises(isLoaded)
    THEN [kind |-> "error", error |-> "RuntimeError", raised_by |-> "predict_risk", status |-> 500]
    ELSE [kind |-> "quick_score",
          status |-> 200,
          risk_score |-> risk_score,
          risk_category |-> IF risk_score < 25 THEN "low"
                            ELSE IF risk_score < 50 THEN "medium"
                            ELSE IF risk_score < 75 THEN "high"
                            ELSE "very_high",
          recommendation |-> IF risk_score < 25 THEN "approve"
                             ELSE IF risk_score < 50 THEN "review"
                             ELSE IF risk_score < 75 THEN "review"
                             ELSE "reject"]

\* ------------------------------------------ digital twins (simple_main.py)

\* Money of a twin is kept in cents.  round(x, 2) of x = num / den cents: the
\* nearest cent; a value halfway between two cents in decimal goes up or down
\* as its binary float lies above or below the half, which half_up stands for.
RoundCents(num, den, half_up) ==
    LET q == num \div den
        rem == num % den
    IN  IF 2 * rem > den THEN q + 1
        ELSE IF 2 * rem = den /\ half_up THEN q + 1
        ELSE q

ExpenseCategories ==
    <<"housing", "food", "transport", "utilities", "healthcare", "education",
      "clothing", "entertainment">>

\* MONTHLY_MULTIPLIERS, in tenths
MonthlyMultipliers == <<10, 10, 14, 16, 10, 15, 14, 13, 16, 10, 10, 12>>

HighExpenseMonths == {3, 4, 6, 7, 8, 9}

\* get_expense_ratios(dependents), in percent
get_expense_ratios(dependents) ==
    LET capped == IF dependents < 3 THEN dependents ELSE 3
        extra == IF dependents > 0 THEN capped ELSE 0
    IN  [housing |-> 25, food |-> 20 + 2 * extra, transport |-> 8, utilities |-> 5,
         healthcare |-> 4 + extra, education |-> 5 + 2 * extra, clothing |-> 4,
         entertainment |-> 3]

\* UserProfile(user_id=twin_id): the defaults of the schema, income in cents
DefaultProfile(twin_id) ==
    [user_id |-> twin_id, age |-> 32, occupation |-> "private_sector", city |-> "tunis",
     monthly_income |-> 200000, dependents |-> 1]

\* the health_state of a savings rate num / den
HealthState(num, den) ==
    IF 100 * num >= 20 * den THEN "thriving"
    ELSE IF 100 * num >= 10 * den THEN "stable"
    ELSE IF num >= 0 THEN "stressed"
    ELSE "crisis"

\* create_digital_twin(profile): the twin it builds (created_at is left out)
create_digital_twin(p, half_up) ==
    LET expense_ratios == get_expense_ratios(p.dependents)
        monthly_expenses ==
            [cat \in DOMAIN expense_ratios |->
               RoundCents(p.monthly_income * expense_ratios[cat], 100, half_up)]
        total_expenses ==
            SumSeq([i \in 1..Len(ExpenseCategories) |->
                      monthly_expenses[ExpenseCategories[i]]])
        saved_part == IF p.monthly_income - total_expenses > 0
                      THEN p.monthly_income - total_expenses ELSE 0
    IN  [twin_id |-> p.user_id,
         profile |-> p,
         baseline |-> [monthly_income |-> p.monthly_income,
                       monthly_expenses |-> monthly_expenses,
                       total_expenses |-> total_expenses,
                       monthly_savings |-> p.monthly_income - total_expenses,
                       savings_rate |-> RoundCents(saved_part * 1000, p.monthly_income,
                                                   half_up)],
         health_state |-> HealthState(saved_part, p.monthly_income),
         high_expense_months |-> HighExpenseMonths]

\* twins_db[twin["twin_id"]] = twin
StoreTwin(db, twin) ==
    [id \in DOMAIN db \cup {twin.twin_id} |->
       IF id = twin.twin_id THEN twin ELSE db[id]]

\* if twin_id not in twins_db: create_digital_twin(UserProfile(user_id=twin_id))
EnsureTwin(db, twin_id, half_up) ==
    IF twin_id \in DOMAIN db THEN db
    ELSE StoreTwin(db, create_digital_twin(DefaultProfile(twin_id), half_up))

\* One month of forecast_cash_flow for calendar month cm, drawing in state r:
\* income_var in hundredths of a cent, expense_var in thousandths.
ForecastMonth(twin, cm, r) ==
    LET r1 == Advance(r)
        r2 == Advance(r1)
    IN  [income_var |-> twin.baseline.monthly_income * Uniform(95, 105, r1),
         expense_var |-> twin.baseline.total_expenses * MonthlyMultipliers[cm]
                         * Uniform(90, 110, r2),
         month |-> cm,
         rng |-> r2]

\* forecast_cash_flow(twin, months), the clock putting the first forecast in
\* calendar month first and every further one in the month after; returns the
\* list and the state the generator is left in
RECURSIVE forecast_cash_flow(_, _, _, _, _)
forecast_cash_flow(twin, months, first, r, half_up) ==
    IF months = 0 THEN [forecasts |-> <<>>, cumulative |-> 0, rng |-> r]
    ELSE LET prev == forecast_cash_flow(twin, months - 1, first, r, half_up)
             f == ForecastMonth(twin, CalendarMonth(first + months - 1), prev.rng)
             savings == 10 * f.income_var - f.expense_var
             cumulative_savings == prev.cumulative + savings
         IN  [forecasts |->
                  Append(prev.forecasts,
                         [month |-> f.month,
                          predicted_income |-> RoundCents(f.income_var, 100, half_up),
                          predicted_expenses |-> RoundCents(f.expense_var, 1000, half_up),
                          predicted_savings |-> RoundCents(savings, 1000, half_up),
                          cumulative_savings |->
                              RoundCents(cumulative_savings, 1000, half_up),
                          is_high_expense_month |-> f.month \in HighExpenseMonths]),
              cumulative |-> cumulative_savings,
              rng |-> f.rng]

\* rate / (1 - (1 + rate) ** -term) for rate = 0.10 / 12, in units of 10^-7
AnnuityFactor(term) ==
    CASE term = 12 -> 879159
      [] term = 24 -> 461449
      [] term = 36 -> 322672

\* the monthly payment of a loan of amount units (a multiple of 100), in
\* thousandths of a cent
LoanPayment(amount, term) == (amount \div 100) * AnnuityFactor(term)

\* one entry of options
LoanOption(amount, term, max_payment, surplus, half_up) ==
    LET payment == LoanPayment(amount, term)
        total_cost == payment * term
    IN  [kind |-> "option",
         term_months |-> term,
         monthly_payment |-> RoundCents(payment, 1000, half_up),
         total_cost |-> RoundCents(total_cost, 1000, half_up),
         total_interest |-> RoundCents(total_cost - amount * 100000, 1000, half_up),
         affordable |-> payment <= max_payment,
         payment_to_surplus_ratio |->
             IF surplus > 0
             THEN [kind |-> "ratio",
                   hundredths |-> RoundCents(payment, 10 * surplus, half_up)]
             ELSE NoValue]

\* [o for o in options if o["affordable"]]
RECURSIVE AffordableOptions(_)
AffordableOptions(options) ==
    IF options = <<>> THEN <<>>
    ELSE IF Head(options).affordable
         THEN <<Head(options)>> \o AffordableOptions(Tail(options))
         ELSE AffordableOptions(Tail(options))

\* mutant: the option with the lowest monthly payment is recommended
RECURSIVE BestOptionCheapest(_)
BestOptionCheapest(affordable_options) ==
    IF affordable_options = <<>> THEN NoValue
    ELSE LET rest == BestOptionCheapest(Tail(affordable_options))
         IN  IF rest.kind = "none"
                \/ Head(affordable_options).monthly_payment < rest.monthly_payment
             THEN Head(affordable_options) ELSE rest

\* min(affordable_options, key=total_interest) if affordable_options else
\* None; min keeps the first of equal keys
RECURSIVE BestOption(_)
BestOption(affordable_options) ==
    IF affordable_options = <<>> THEN NoValue
    ELSE LET rest == BestOption(Tail(affordable_options))
         IN  IF rest.kind = "none"
                \/ Head(affordable_options).total_interest <= rest.total_interest
             THEN Head(affordable_options) ELSE rest

\* recommend_loan(twin, request), without goal and timing_advice, which do
\* not depend on the twin; max_payment in thousandths of a cent
recommend_loan(twin, amount_needed, half_up) ==
    LET income == twin.baseline.monthly_income
        current_expenses == twin.baseline.total_expenses
        surplus == income - current_expenses
        max_payment == surplus * 400
    IN  IF max_payment <= 0
        THEN [eligible |-> FALSE,
              reason |-> "Insufficient monthly surplus for loan payments",
              alternatives |->
                  <<[approach |-> "Reduce expenses by 10%",
                     potential_savings |-> RoundCents(current_expenses, 10, half_up)],
                    [approach |-> "Build emergency fund",
                     target |-> current_expenses * 3]>>]
        ELSE LET options == [i \in 1..3 |->
                               LoanOption(amount_needed, 12 * i, max_payment, surplus,
                                          half_up)]
                 affordable_options == AffordableOptions(options)
                 recommended == BestOption(affordable_options)
                 payment == IF recommended.kind = "none" THEN 0
                            ELSE recommended.monthly_payment
             IN  [eligible |-> Len(affordable_options) > 0,
                  amount_requested |-> amount_needed,
                  max_affordable_payment |-> RoundCents(max_payment, 1000, half_up),
                  options |-> options,
                  recommended |-> recommended,
                  stress_test |->
                      [can_handle_income_drop |->
                           income * 8 - current_expenses * 10 - payment * 10 > 0,
                       emergency_fund_needed |-> current_expenses * 3]]

\* simulate_scenario(twin, scenario) with the changes in percent and no new
\* loan or one over 24 months; the month-by-month timeline and its summary,
\* which read the clock, are left out.  new_income and the expenses before the
\* loan in hundredths of a cent, the loan payment and the sums in thousandths.
simulate_scenario(twin, scenario, half_up) ==
    LET baseline == twin.baseline
        new_income == baseline.monthly_income * (100 + scenario.income_change_pct)
        changed_expenses == baseline.total_expenses * (100 + scenario.expense_change_pct)
        loan_payment == IF scenario.new_loan_amount > 0
                        THEN LoanPayment(scenario.new_loan_amount, scenario.loan_term_months)
                        ELSE 0
        new_savings == 10 * (new_income - changed_expenses) - loan_payment
        \* 20 * (new_income * 0.8 - new_expenses * 1.15)
        stress_surplus == 10 * (16 * new_income - 23 * changed_expenses) - 23 * loan_payment
    IN  [baseline_comparison |->
             [original_savings |-> baseline.monthly_savings,
              new_savings |-> RoundCents(new_savings, 1000, half_up),
              difference |-> RoundCents(new_savings - 1000 * baseline.monthly_savings, 1000,
                                        half_up)],
         stress_test |->
             [monthly_surplus |-> RoundCents(stress_surplus, 20000, half_up),
              sustainable |-> stress_surplus > 0],
         loan_details |->
             IF scenario.new_loan_amount > 0
             THEN [kind |-> "loan",
                   amount |-> scenario.new_loan_amount,
                   monthly_payment |-> RoundCents(loan_payment, 1000, half_up),
                   total_cost |-> RoundCents(loan_payment * scenario.loan_term_months, 1000,
                                             half_up),
                   term_months |-> scenario.loan_term_months]
             ELSE NoValue]

\* --------------------------------------------------------------- state

\* threshold arguments tried (ticks); -500 units is the default
DefaultThreshold == Ticks(0 - 500)

Thresholds == {DefaultThreshold, 0}

\* consecutive_months arguments tried; 3 is the default
ConsecutiveChoices == {1, 2, 3}

VARIABLES
    profile,    \* CashflowSimulator.profile, the profile under assessment
    rng,        \* the state of numpy's global generator
    loaded,     \* ModelService._loaded
    op,         \* the public operation in progress, "none" when idle
    pc,         \* where the operation stands
    args,       \* its arguments: threshold and consecutive_months, or the endpoint
                \* and twin_id of a twin request
    run,        \* which run_monte_carlo call of the operation is in progress
    loop,       \* the frame of run_monte_carlo: the index i and trajectories
    results,    \* what the latest run_monte_carlo returned to its caller
    saved,      \* `results` of get_cashflow_projection, kept over its second run
    ret,        \* what the latest operation returned, or the error it raised
    hist,       \* history: the first results ever returned, draws by other code since,
                \* and the state of np.random when run_monte_carlo was called
    stressByThr, \* history: per threshold, the latest stress series returned
    twins_db,   \* simple_main.twins_db, the twins stored by twin_id
    tasks,      \* the simulations of a fanned-out ensemble, one per seed (SpecPar)
    created,    \* main.model_service is not None
    risk_score  \* the score predict_risk returned to the assessment in progress

vars == <<twins_db, created, risk_score, tasks, profile, rng, loaded, op, pc, args, run, loop, results, saved, ret, hist, stressByThr>>

\* simulations run side by side in SpecPar
NTasks == 2

TaskIds == 0..(NTasks - 1)

NoTasks == [i \in TaskIds |-> [pc |-> "none"]]

\* risk scores the classifier may return (percent), around every threshold
RiskScores == {24, 25, 29, 30, 31, 49, 50, 59, 60, 69, 70, 74, 75}

\* the scores tried in whole assessments: an approval, a review with
\* recommendations, a rejection
SampleScores == {29, 49, 70}

\* no score yet
NoScore == 0 - 1

\* twins_db: dict[str, dict] = {}
NoTwins == [id \in {} |-> NoValue]

\* no call of run_monte_carlo is in progress
NoSnapshot == 0 - 1

NoLoop == [i |-> 0, trajectories |-> [i \in Sims |-> [m \in Months |-> 0]]]

Init ==
    /\ profile \in Profiles
    /\ rng \in RngStates
    /\ loaded \in BOOLEAN
    /\ op = "none"
    /\ pc = "idle"
    /\ args = [threshold |-> DefaultThreshold, consecutive_months |-> 3]
    /\ run = 0
    /\ loop = NoLoop
    /\ results = NoValue
    /\ saved = NoValue
    /\ ret = NoValue
    /\ hist = [first |-> NoValue, perturbed |-> FALSE, compared |-> FALSE,
               generator |-> NoSnapshot]
    /\ stressByThr = [t \in Thresholds |-> NoValue]
    /\ tasks = NoTasks
    /\ created \in BOOLEAN
    /\ loaded => created
    /\ risk_score = NoScore
    /\ twins_db = NoTwins

\* ------------------------------------------------------------- actions

\* Other code of the process (simple_main.py, logic.py, db_utils.py) draws
\* from the same global generator between two operations.
OtherDraw ==
    /\ pc = "idle"
    /\ rng' = Advance(rng)
    /\ hist' = [hist EXCEPT !.perturbed = (hist.first.kind # "none")]
    /\ UNCHANGED <<twins_db, created, risk_score, tasks, profile, loaded, op, pc, args, run, loop, results, saved, ret, stressByThr>>

\* entry of run_monte_carlo: trajectories = np.zeros((n_simulations, horizon_months + 1))
EnterMonteCarlo(o, threshold, consecutive_months, n) ==
    /\ op' = o
    /\ pc' = "mc_loop"
    /\ args' = [threshold |-> threshold, consecutive_months |-> consecutive_months]
    /\ run' = n
    /\ loop' = NoLoop
    /\ ret' = NoValue

\* a caller invokes simulator.run_monte_carlo()
CallRunMonteCarlo ==
    /\ pc = "idle"
    /\ EnterMonteCarlo("run_monte_carlo", DefaultThreshold, 3, 1)
    /\ hist' = [hist EXCEPT !.generator = rng]
    /\ UNCHANGED <<twins_db, created, risk_score, tasks, profile, rng, loaded, results, saved, stressByThr>>

\* a caller invokes simulator.calculate_stress_probability(threshold)
CallStressProbability ==
    /\ pc = "idle"
    /\ \E t \in Thresholds : EnterMonteCarlo("calculate_stress_probability", t, 3, 1)
    /\ UNCHANGED <<twins_db, created, risk_score, tasks, profile, rng, loaded, results, saved, hist, stressByThr>>

\* a caller invokes simulator.identify_default(threshold, consecutive_months)
CallIdentifyDefault ==
    /\ pc = "idle"
    /\ \E t \in Thresholds, c \in ConsecutiveChoices :
         EnterMonteCarlo("identify_default", t, c, 1)
    /\ UNCHANGED <<twins_db, created, risk_score, tasks, profile, rng, loaded, results, saved, hist, stressByThr>>

\* a caller invokes simulator.get_cashflow_projection()
CallProjection ==
    /\ pc = "idle"
    /\ EnterMonteCarlo("get_cashflow_projection", DefaultThreshold, 3, 1)
    /\ UNCHANGED <<twins_db, created, risk_score, tasks, profile, rng, loaded, results, saved, hist, stressByThr>>

\* for i in range(n_simulations): trajectories[i, :] = simulate_single_trajectory(seed=i)
\* An exception of the simulation propagates out of the operation in progress.
SimulateOne ==
    /\ pc = "mc_loop"
    /\ loop.i < NSimulations
    /\ LET t == simulate_single_trajectory(profile, loop.i, rng)
       IN  /\ rng' = t.rng
           /\ IF t.err
              THEN /\ op' = "none"
                   /\ pc' = "idle"
                   /\ run' = 0
                   /\ loop' = NoLoop
                   /\ ret' = IF op = "assess_risk"
                             THEN RouteError("KeyError", op)
                             ELSE [kind |-> "error", error |-> "KeyError", raised_by |-> op]
                   /\ hist' = [hist EXCEPT !.generator = NoSnapshot]
              ELSE /\ loop' = [i |-> loop.i + 1,
                               trajectories |-> [loop.trajectories EXCEPT ![loop.i] = t.balance]]
                   /\ UNCHANGED <<op, pc, run, ret, hist>>
    /\ UNCHANGED <<twins_db, created, risk_score, tasks, profile, loaded, args, results, saved, stressByThr>>

\* mutant: the aggregate is taken as soon as one trajectory is stored
ReturnMonteCarloEarly ==
    /\ pc = "mc_loop"
    /\ loop.i >= 1
    /\ results' = Aggregate(loop.trajectories)
    /\ pc' = "returned"
    /\ loop' = NoLoop
    /\ hist' = IF hist.first.kind = "none"
               THEN [hist EXCEPT !.first = results']
               ELSE [hist EXCEPT !.compared = hist.perturbed]
    /\ UNCHANGED <<twins_db, created, risk_score, tasks, profile, rng, loaded, op, args, run, saved, ret, stressByThr>>

\* the return statement of run_monte_carlo, after the loop
ReturnMonteCarlo ==
    /\ pc = "mc_loop"
    /\ loop.i = NSimulations
    /\ results' = Aggregate(loop.trajectories)
    /\ pc' = "returned"
    /\ loop' = NoLoop
    /\ hist' = IF hist.first.kind = "none"
               THEN [hist EXCEPT !.first = results']
               ELSE [hist EXCEPT !.compared = hist.perturbed]
    /\ UNCHANGED <<twins_db, created, risk_score, tasks, profile, rng, loaded, op, args, run, saved, ret, stressByThr>>

Finish(value) ==
    /\ op' = "none"
    /\ pc' = "idle"
    /\ run' = 0
    /\ ret' = value

\* run_monte_carlo hands its dictionary to the caller
FinishRunMonteCarlo ==
    /\ pc = "returned"
    /\ op = "run_monte_carlo"
    /\ Finish(results)
    /\ hist' = [hist EXCEPT !.generator = NoSnapshot]
    /\ UNCHANGED <<twins_db, created, risk_score, tasks, profile, rng, loaded, args, loop, results, saved, stressByThr>>

\* calculate_stress_probability after its run_monte_carlo
FinishStressProbability ==
    /\ pc = "returned"
    /\ op = "calculate_stress_probability"
    /\ LET value == [kind |-> "stress", threshold |-> args.threshold,
                     stress_prob |-> StressProb(results.trajectories, args.threshold)]
       IN  /\ Finish(value)
           /\ stressByThr' = [stressByThr EXCEPT ![args.threshold] = value]
    /\ UNCHANGED <<twins_db, created, risk_score, tasks, profile, rng, loaded, args, loop, results, saved, hist>>

\* identify_default after its run_monte_carlo: the scan of results['p50']
FinishIdentifyDefault ==
    /\ pc = "returned"
    /\ op = "identify_default"
    /\ Finish([kind |-> "default", threshold |-> args.threshold,
               consecutive_months |-> args.consecutive_months,
               flag |-> DefaultScan(DefaultSeries(results), args.threshold,
                                    args.consecutive_months, 0, 0)])
    /\ UNCHANGED <<twins_db, created, risk_score, tasks, profile, rng, loaded, args, loop, results, saved, hist, stressByThr>>

\* get_cashflow_projection: results = self.run_monte_carlo() is done; it now
\* calls calculate_stress_probability(), which runs run_monte_carlo again
ProjectionSecondRun ==
    /\ pc = "returned"
    /\ op \in {"get_cashflow_projection", "assess_risk"}
    /\ run = 1
    /\ saved' = results
    /\ run' = 2
    /\ pc' = "mc_loop"
    /\ loop' = NoLoop
    /\ UNCHANGED <<twins_db, created, risk_score, tasks, profile, rng, loaded, op, args, results, ret, hist, stressByThr>>

\* mutant: the stress probability is taken against a threshold of 0
ProjectionValueZero ==
    Projection(saved, StressProb(results.trajectories, 0))

\* the list get_cashflow_projection builds from its two runs: the percentiles
\* of the first, the stress probability of the second
ProjectionValue ==
    Projection(saved, StressProb(results.trajectories, DefaultThreshold))

\* get_cashflow_projection returns its list
FinishProjection ==
    /\ pc = "returned"
    /\ op = "get_cashflow_projection"
    /\ run = 2
    /\ Finish([kind |-> "projection", projection |-> ProjectionValue])
    /\ UNCHANGED <<twins_db, created, risk_score, tasks, profile, rng, loaded, args, loop, results, saved, hist, stressByThr>>

\* A request reaches assess_loan_risk.  Its dependency get_model_service is
\* resolved first; then the handler calls RiskAssessmentService.assess_risk.
CallAssessRisk ==
    /\ pc = "idle"
    /\ args' = [threshold |-> DefaultThreshold, consecutive_months |-> 3]
    /\ run' = 0
    /\ IF ~created
       THEN /\ ret' = ServiceUnavailable
            /\ UNCHANGED <<op, pc>>
       ELSE /\ op' = "assess_risk"
            /\ pc' = "extract"
            /\ ret' = NoValue
    /\ UNCHANGED <<twins_db, created, risk_score, tasks, profile, rng, loaded, loop, results, saved, hist, stressByThr>>

\* features = self.model_service.extract_features(profile_data)
AssessExtractFeatures ==
    /\ pc = "extract"
    /\ IF ExtractFeaturesRaises(profile)
       THEN Finish(RouteError("KeyError", "extract_features"))
       ELSE /\ pc' = "predict"
            /\ UNCHANGED <<op, run, ret>>
    /\ UNCHANGED <<twins_db, created, risk_score, tasks, profile, rng, loaded, args, loop, results, saved, hist, stressByThr>>

\* risk_score, probabilities = self.model_service.predict_risk(features), then
\* the simulator is built and get_cashflow_projection starts its first run
AssessPredictRisk ==
    /\ pc = "predict"
    /\ IF PredictRiskRaises(loaded)
       THEN /\ Finish(RouteError("RuntimeError", "predict_risk"))
            /\ UNCHANGED <<loop, risk_score>>
       ELSE /\ \E score \in SampleScores : risk_score' = score
            /\ pc' = "mc_loop"
            /\ run' = 1
            /\ loop' = NoLoop
            /\ UNCHANGED <<op, ret>>
    /\ UNCHANGED <<twins_db, created, tasks, profile, rng, loaded, args, results, saved, hist, stressByThr>>

\* assess_risk compiles its result from the features, the score and the
\* projection, and the handler returns it
FinishAssessRisk ==
    /\ pc = "returned"
    /\ op = "assess_risk"
    /\ run = 2
    /\ Finish(Assessment(extract_features(profile), risk_score, ProjectionValue))
    /\ risk_score' = NoScore
    /\ UNCHANGED <<twins_db, created, tasks, profile, rng, loaded, args, loop, results, saved, hist, stressByThr>>

Next ==
    \/ OtherDraw
    \/ CallRunMonteCarlo
    \/ CallStressProbability
    \/ CallIdentifyDefault
    \/ CallProjection
    \/ CallAssessRisk
    \/ SimulateOne
    \/ ReturnMonteCarlo
    \/ FinishRunMonteCarlo
    \/ FinishStressProbability
    \/ FinishIdentifyDefault
    \/ ProjectionSecondRun
    \/ FinishProjection
    \/ AssessExtractFeatures
    \/ AssessPredictRisk
    \/ FinishAssessRisk

Spec == Init /\ [][Next]_vars

\* ------------------------------------------- simulations side by side

\* The ensemble fanned out over threads: task i is simulate_single_trajectory
\* (seed=i), taking its steps (the seeding, then one month of draws at a
\* time) interleaved with the other tasks, all on numpy's global generator.
InitPar ==
    /\ profile \in Profiles
    /\ rng \in RngStates
    /\ loaded = TRUE
    /\ op = "none"
    /\ pc = "idle"
    /\ args = [threshold |-> DefaultThreshold, consecutive_months |-> 3]
    /\ run = 0
    /\ loop = NoLoop
    /\ results = NoValue
    /\ saved = NoValue
    /\ ret = NoValue
    /\ hist = [first |-> NoValue, perturbed |-> FALSE, compared |-> FALSE,
               generator |-> NoSnapshot]
    /\ stressByThr = [t \in Thresholds |-> NoValue]
    /\ tasks = [i \in TaskIds |->
                  [pc |-> "seed", month |-> 1, err |-> FALSE,
                   balance |-> StartTrajectory(profile, 0).balance]]
    /\ created = TRUE
    /\ risk_score = NoScore
    /\ twins_db = NoTwins

\* np.random.seed(seed) of task i
TaskSeed(i) ==
    /\ tasks[i].pc = "seed"
    /\ rng' = SeedStep(i, rng)
    /\ tasks' = [tasks EXCEPT ![i].pc = "months"]
    /\ UNCHANGED <<twins_db, created, risk_score, profile, loaded, op, pc, args, run, loop, results, saved, ret, hist, stressByThr>>

\* one iteration of the month loop of task i; the last one returns
TaskMonth(i) ==
    /\ tasks[i].pc = "months"
    /\ LET t == MonthStep(profile,
                          [balance |-> tasks[i].balance, rng |-> rng, err |-> FALSE],
                          tasks[i].month)
       IN  /\ rng' = t.rng
           /\ tasks' = [tasks EXCEPT
                          ![i].balance = t.balance,
                          ![i].err = t.err,
                          ![i].month = @ + 1,
                          ![i].pc = IF t.err \/ tasks[i].month = HorizonMonths
                                    THEN "done" ELSE "months"]
    /\ UNCHANGED <<twins_db, created, risk_score, profile, loaded, op, pc, args, run, loop, results, saved, ret, hist, stressByThr>>

NextPar == \E i \in TaskIds : TaskSeed(i) \/ TaskMonth(i)

SpecPar == InitPar /\ [][NextPar]_vars

\* ------------------------------------------- scoring on its own inputs

\* a household for the ratio bands: an income of 1000, a zero-rate loan paid
\* 25 a month and one obligation, so that debt-to-income is (obl + 25) / 1000
DtiProfile(obl) ==
    [BaseProfile EXCEPT
       !.current_balance = 5000,
       !.income_streams = <<[type |-> "salary", amount |-> 1000, reliability |-> "high",
                             growth_rate |-> 3]>>,
       !.obligations = <<[type |-> "loan", monthly_amount |-> obl, remaining_months |-> 12]>>,
       !.loan_interest_rate = 0, !.loan_duration_months = 4]

\* obligations on both sides of every bound of the debt-burden bands
ObligationChoices == {174, 175, 274, 275, 374, 375, 474, 475, 574, 575, 900}

\* one stream that pays nothing
ZeroIncomeProfile ==
    [BaseProfile EXCEPT
       !.income_streams = <<[type |-> "salary", amount |-> 0, reliability |-> "high",
                             growth_rate |-> 0]>>]

\* two streams that pay nothing
ZeroIncomeTwoStreams ==
    [BaseProfile EXCEPT
       !.income_streams = <<[type |-> "salary", amount |-> 0, reliability |-> "high",
                             growth_rate |-> 0],
                            [type |-> "freelance", amount |-> 0, reliability |-> "low",
                             growth_rate |-> 0]>>]

\* no income stream at all
NoIncomeProfile == [BaseProfile EXCEPT !.income_streams = <<>>]

\* expenses so volatile and seasonal that the expense score leaves [0, 100]
VolatileProfile ==
    [DtiProfile(275) EXCEPT
       !.expenses = <<[category |-> "variable", monthly_baseline |-> 80, volatility |-> 60,
                       seasonal_multipliers |-> (7 :> 30)]>>]

\* life events in February (two of them) and December, and future incomes due
\* in January 2026, March 2027, January 2028 and February 2028
CalendarProfile ==
    [BaseProfile EXCEPT
       !.life_events = <<[name |-> "wedding", start_month |-> 2, duration_months |-> 1,
                          expense_impact |-> 40],
                         [name |-> "holiday", start_month |-> 12, duration_months |-> 3,
                          expense_impact |-> 25],
                         [name |-> "school", start_month |-> 2, duration_months |-> 2,
                          expense_impact |-> 15]>>,
       !.future_incomes = <<[type |-> "bonus", expected_date |-> Date20260120,
                             expected_amount |-> 30, confidence |-> "high"],
                            [type |-> "bonus", expected_date |-> Date20270305,
                             expected_amount |-> 50, confidence |-> "low"],
                            [type |-> "asset_sale", expected_date |-> Date20280115,
                             expected_amount |-> 70, confidence |-> "medium"],
                            [type |-> "inheritance", expected_date |-> Date20280201,
                             expected_amount |-> 90, confidence |-> "high"]>>]

RiskProfiles ==
    Profiles
    \cup {DtiProfile(obl) : obl \in ObligationChoices}
    \cup {ZeroIncomeProfile, ZeroIncomeTwoStreams, NoIncomeProfile, VolatileProfile,
          CalendarProfile}

\* stress probabilities a projection entry may carry: exactly 0.5, and 1
StressLevels == {Frac(1, 2), Frac(2, 2)}

\* projections as far as _generate_warnings reads them
StressSeries == [Months -> [stress_probability : StressLevels]]

InitRisk ==
    /\ profile \in RiskProfiles
    /\ rng = 0
    /\ created \in BOOLEAN
    /\ loaded \in BOOLEAN
    /\ loaded => created
    /\ op = "none"
    /\ pc = "idle"
    /\ args = [threshold |-> DefaultThreshold, consecutive_months |-> 3]
    /\ run = 0
    /\ loop = NoLoop
    /\ results = NoValue
    /\ saved = NoValue
    /\ ret = NoValue
    /\ hist = [first |-> NoValue, perturbed |-> FALSE, compared |-> FALSE,
               generator |-> NoSnapshot]
    /\ stressByThr = [t \in Thresholds |-> NoValue]
    /\ tasks = NoTasks
    /\ risk_score = NoScore
    /\ twins_db = NoTwins

\* model_service.extract_features(profile_data), called on its own
ExtractFeatures ==
    /\ pc = "idle"
    /\ ret' = IF ExtractFeaturesRaises(profile)
              THEN [kind |-> "error", error |-> "KeyError", raised_by |-> "extract_features"]
              ELSE [kind |-> "features", features |-> extract_features(profile)]
    /\ UNCHANGED <<twins_db, created, risk_score, tasks, profile, rng, loaded, op, pc, args, run, loop, results, saved, hist, stressByThr>>

\* the payment CashflowSimulator.calculate_loan_payment returns and the one
\* extract_features computes, for the same profile
LoanPayments ==
    /\ pc = "idle"
    /\ ~ExtractFeaturesRaises(profile)
    /\ ret' = [kind |-> "loan_payment",
               simulator |-> calculate_loan_payment(profile),
               features |-> extract_features(profile).loan_payment]
    /\ UNCHANGED <<twins_db, created, risk_score, tasks, profile, rng, loaded, op, pc, args, run, loop, results, saved, hist, stressByThr>>

\* the scoring of assess_risk on the features and a score of the classifier
ScoreAssessment ==
    /\ pc = "idle"
    /\ ~ExtractFeaturesRaises(profile)
    /\ \E score \in RiskScores :
         LET features == extract_features(profile)
         IN  ret' = [kind |-> "scores",
                     risk_score |-> score,
                     risk_category |-> categorize_risk(score),
                     recommendation |-> get_recommendation(score, features),
                     risk_breakdown |-> generate_risk_breakdown(features, score),
                     recommendations_for_approval |->
                         recommendations_for_approval(features, score)]
    /\ UNCHANGED <<twins_db, created, risk_score, tasks, profile, rng, loaded, op, pc, args, run, loop, results, saved, hist, stressByThr>>

\* _generate_warnings on the features and a projection
Warnings ==
    /\ pc = "idle"
    /\ ~ExtractFeaturesRaises(profile)
    /\ \E series \in StressSeries :
         ret' = [kind |-> "warnings",
                 cashflow_projection |-> series,
                 warnings |-> generate_warnings(extract_features(profile), series)]
    /\ UNCHANGED <<twins_db, created, risk_score, tasks, profile, rng, loaded, op, pc, args, run, loop, results, saved, hist, stressByThr>>

\* a request reaches quick_risk_score
QuickRiskScore ==
    /\ pc = "idle"
    /\ \E score \in RiskScores : ret' = quick_risk_score(profile, created, loaded, score)
    /\ UNCHANGED <<twins_db, created, risk_score, tasks, profile, rng, loaded, op, pc, args, run, loop, results, saved, hist, stressByThr>>

\* the months of a simulation over the horizon assess_risk asks for
AssessMonths == 1..AssessHorizon

\* the event_expense and future_income terms of the month loop, month by
\* month over that horizon
MonthTerms ==
    /\ pc = "idle"
    /\ ret' = [kind |-> "month_terms",
               event_expense |-> [month \in AssessMonths |-> EventExpense(profile, month)],
               future_income |-> [month \in AssessMonths |-> FutureIncome(profile, month)]]
    /\ UNCHANGED <<twins_db, created, risk_score, tasks, profile, rng, loaded, op, pc, args, run, loop, results, saved, hist, stressByThr>>

NextRisk ==
    \/ ExtractFeatures
    \/ LoanPayments
    \/ ScoreAssessment
    \/ Warnings
    \/ QuickRiskScore
    \/ MonthTerms

SpecRisk == InitRisk /\ [][NextRisk]_vars

\* --------------------------------------- identify_default on ensembles

\* balances a trajectory may take: far below both thresholds, between them,
\* and above both
Low == Ticks(0 - 900)
Mid == Ticks(0 - 100)
High == Ticks(300)

\* trajectories that stay on one level, and ones that change level after
\* month 1
Shapes ==
    {[m \in Months |-> Low], [m \in Months |-> Mid],
     [m \in Months |-> IF m <= 1 THEN Low ELSE High],
     [m \in Months |-> IF m <= 1 THEN High ELSE Low]}

\* the arrays the loop of run_monte_carlo may have filled
Ensembles == [Sims -> Shapes]

\* identify_default has called run_monte_carlo and its loop has stored the
\* last trajectory; the household that produced the array is left open
InitEnsemble ==
    /\ profile = BaseProfile
    /\ rng = 0
    /\ created = TRUE
    /\ loaded = TRUE
    /\ op = "identify_default"
    /\ pc = "mc_loop"
    /\ args \in [threshold : Thresholds, consecutive_months : ConsecutiveChoices]
    /\ run = 1
    /\ loop \in [i : {NSimulations}, trajectories : Ensembles]
    /\ results = NoValue
    /\ saved = NoValue
    /\ ret = NoValue
    /\ hist = [first |-> NoValue, perturbed |-> FALSE, compared |-> FALSE,
               generator |-> NoSnapshot]
    /\ stressByThr = [t \in Thresholds |-> NoValue]
    /\ tasks = NoTasks
    /\ risk_score = NoScore
    /\ twins_db = NoTwins

NextEnsemble ==
    \/ ReturnMonteCarlo
    \/ FinishIdentifyDefault

SpecEnsemble == InitEnsemble /\ [][NextEnsemble]_vars

\* ------------------------------------------ the twin endpoints as a system

TwinIds == {"test_user", "any_user"}

\* incomes of created profiles, in cents: 0.01, 0.02 and 3000.00
IncomeChoices == {1, 2, 300000}

\* profiles a client may post
UserProfiles ==
    [user_id : TwinIds, age : {30}, occupation : {"engineer"}, city : {"tunis"},
     monthly_income : IncomeChoices, dependents : {0, 3}]

\* loan amounts asked for, in units
LoanAmounts == {2000, 15000}

\* scenarios a client may post
Scenarios ==
    [income_change_pct : {0, 10}, expense_change_pct : {0},
     new_loan_amount : {0, 5000}, loan_term_months : {24}]

\* the module is imported: no twin is stored
InitTwin ==
    /\ profile = BaseProfile
    /\ rng = 0
    /\ created = FALSE
    /\ loaded = FALSE
    /\ op = "none"
    /\ pc = "idle"
    /\ args = [endpoint |-> "none"]
    /\ run = 0
    /\ loop = NoLoop
    /\ results = NoValue
    /\ saved = NoValue
    /\ ret = NoValue
    /\ hist = [first |-> NoValue, perturbed |-> FALSE, compared |-> FALSE,
               generator |-> NoSnapshot]
    /\ stressByThr = [t \in Thresholds |-> NoValue]
    /\ tasks = NoTasks
    /\ risk_score = NoScore
    /\ twins_db = NoTwins

\* what a handler hands back
Response(code, body) == [kind |-> "response", status |-> code, body |-> body]

\* POST /api/v1/twins
CreateTwin ==
    /\ \E user \in UserProfiles, half_up \in BOOLEAN :
         LET twin == create_digital_twin(user, half_up)
         IN  /\ twins_db' = StoreTwin(twins_db, twin)
             /\ args' = [endpoint |-> "create_twin", twin_id |-> user.user_id]
             /\ ret' = Response(201, twin)
    /\ UNCHANGED <<created, risk_score, tasks, profile, rng, loaded, op, pc, run, loop, results, saved, hist, stressByThr>>

\* mutant: get_twin builds the demo twin anew on every request
get_twin_fresh(db, twin_id, half_up) ==
    LET twin == create_digital_twin(DefaultProfile(twin_id), half_up)
    IN  [db |-> StoreTwin(db, twin), body |-> twin]

\* the body of get_twin: the new twins_db and the twin returned
get_twin(db, twin_id, half_up) ==
    IF twin_id \notin DOMAIN db
    THEN LET twin == create_digital_twin(DefaultProfile(twin_id), half_up)
         IN  [db |-> StoreTwin(db, twin), body |-> twin]
    ELSE [db |-> db, body |-> db[twin_id]]

\* GET /api/v1/twins/{twin_id}
GetTwin ==
    /\ \E twin_id \in TwinIds, half_up \in BOOLEAN :
         LET got == get_twin(twins_db, twin_id, half_up)
         IN  /\ twins_db' = got.db
             /\ args' = [endpoint |-> "get_twin", twin_id |-> twin_id]
             /\ ret' = Response(200, got.body)
    /\ UNCHANGED <<created, risk_score, tasks, profile, rng, loaded, op, pc, run, loop, results, saved, hist, stressByThr>>

\* f["month"] for f in forecasts if f["is_high_expense_month"]
RECURSIVE HighMonths(_)
HighMonths(forecasts) ==
    IF forecasts = <<>> THEN <<>>
    ELSE IF Head(forecasts).is_high_expense_month
         THEN <<Head(forecasts).month>> \o HighMonths(Tail(forecasts))
         ELSE HighMonths(Tail(forecasts))

\* GET /api/v1/twins/{twin_id}/forecast?months=...
GetForecast ==
    /\ \E twin_id \in TwinIds, months \in {1, 2}, first \in {3, 12}, half_up \in BOOLEAN :
         LET db == EnsureTwin(twins_db, twin_id, half_up)
             f == forecast_cash_flow(db[twin_id], months, first, rng, half_up)
         IN  /\ twins_db' = db
             /\ rng' = f.rng
             /\ args' = [endpoint |-> "get_forecast", twin_id |-> twin_id]
             /\ ret' = Response(200,
                   [twin_id |-> twin_id,
                    horizon_months |-> months,
                    forecasts |-> f.forecasts,
                    summary |->
                        [total_predicted_savings |->
                             SumSeq([i \in 1..months |-> f.forecasts[i].predicted_savings]),
                         high_expense_months |-> HighMonths(f.forecasts)]])
    /\ UNCHANGED <<created, risk_score, tasks, profile, loaded, op, pc, run, loop, results, saved, hist, stressByThr>>

\* POST /api/v1/twins/{twin_id}/simulate
Simulate ==
    /\ \E twin_id \in TwinIds, scenario \in Scenarios, half_up \in BOOLEAN :
         LET db == EnsureTwin(twins_db, twin_id, half_up)
         IN  /\ twins_db' = db
             /\ args' = [endpoint |-> "simulate", twin_id |-> twin_id]
             /\ ret' = Response(200,
                   [twin_id |-> twin_id,
                    scenario |-> scenario,
                    result |-> simulate_scenario(db[twin_id], scenario, half_up)])
    /\ UNCHANGED <<created, risk_score, tasks, profile, rng, loaded, op, pc, run, loop, results, saved, hist, stressByThr>>

\* POST /api/v1/twins/{twin_id}/recommend-loan
RecommendLoan ==
    /\ \E twin_id \in TwinIds, amount_needed \in LoanAmounts, half_up \in BOOLEAN :
         LET db == EnsureTwin(twins_db, twin_id, half_up)
         IN  /\ twins_db' = db
             /\ args' = [endpoint |-> "recommend_loan", twin_id |-> twin_id,
                         amount_needed |-> amount_needed]
             /\ ret' = Response(200,
                   [twin_id |-> twin_id,
                    recommendation |-> recommend_loan(db[twin_id], amount_needed, half_up)])
    /\ UNCHANGED <<created, risk_score, tasks, profile, rng, loaded, op, pc, run, loop, results, saved, hist, stressByThr>>

NextTwin ==
    \/ CreateTwin
    \/ GetTwin
    \/ GetForecast
    \/ Simulate
    \/ RecommendLoan

SpecTwin == InitTwin /\ [][NextTwin]_vars

\* -------------------------------------------------------------- claims

\* the trajectories simulate_single_trajectory has returned to the loop of the
\* run_monte_carlo in progress, and those the run hands over as it returns
\* (results changes nowhere else), each with its seed
Returned ==
    {<<k, loop.trajectories[k]>> : k \in {i \in Sims : pc = "mc_loop" /\ i < loop.i}}
    \cup (IF pc = "returned" /\ results.kind = "results"
          THEN {<<k, results.trajectories[k]>> : k \in Sims}
          ELSE {})

RemoveAt(s, j) == [i \in 1..(Len(s) - 1) |-> IF i < j THEN s[i] ELSE s[i + 1]]

RECURSIVE AdvanceN(_, _)
AdvanceN(r, n) == IF n = 0 THEN r ELSE Advance(AdvanceN(r, n - 1))

\* the generator state of the n-th draw of month `month` under seed `seed`:
\* every month draws once per income stream, then once per expense
DrawState(p, seed, month, n) ==
    AdvanceN(Seed(seed), (month - 1) * (Len(p.income_streams) + Len(p.expenses)) + n)

MonthIncome(p, seed, month) ==
    SumSeq([j \in 1..Len(p.income_streams) |->
              LET lh == ReliabilityFactor(p.income_streams[j].reliability)
              IN  p.income_streams[j].amount * 10
                  * Uniform(lh[1], lh[2], DrawState(p, seed, month, j))])

MonthExpenses(p, seed, month) ==
    SumSeq([j \in 1..Len(p.expenses) |->
              p.expenses[j].monthly_baseline
              * SeasonalMult(p.expenses[j], CalendarMonth(month))
              * Normal(p.expenses[j].volatility,
                       DrawState(p, seed, month, Len(p.income_streams) + j))])

\* C1: for a fixed profile, n_simulations and horizon_months, every result of
\* run_monte_carlo has the p10, p50, p90 and mean series of the first result
\* ever returned, whatever other code drew from the generator in between.
C1_Deterministic ==
    (results.kind = "results" /\ hist.first.kind = "results") =>
        /\ results.p10 = hist.first.p10
        /\ results.p50 = hist.first.p50
        /\ results.p90 = hist.first.p90
        /\ results.mean = hist.first.mean

\* a run returned after other code drew from the generator since the first run
C1_Witness == pc = "returned" /\ hist.compared /\ results.kind = "results"

\* C2: every trajectory returned has exactly horizon_months + 1 entries, entry
\* 0 is the profile's current_balance, and entry m is entry m-1 plus the
\* month's income and future income minus its expenses, obligations, loan
\* payment and life-event expense.
C2_BalanceRecurrence ==
    \A kt \in Returned :
        LET k == kt[1]
            t == kt[2]
        IN  /\ DOMAIN t = 0..HorizonMonths
            /\ t[0] = Ticks(profile.current_balance)
            /\ \A m \in 1..HorizonMonths :
                 t[m] = t[m - 1]
                        + MonthIncome(profile, k, m) + FutureIncome(profile, m)
                        - MonthExpenses(profile, k, m) - Obligations(profile, m)
                        - LoanPmt(profile, m) - EventExpense(profile, m)

\* all trajectories of a run returned, for a profile with every kind of entry
\* and a month in which each of them contributes
C2_Witness ==
    /\ pc = "mc_loop" /\ loop.i = NSimulations
    /\ \E m \in 1..HorizonMonths :
         /\ FutureIncome(profile, m) > 0 \/ EventExpense(profile, m) > 0
         /\ Obligations(profile, m) > 0
         /\ LoanPmt(profile, m) > 0

\* C3: an obligation with remaining_months = k adds its monthly_amount to the
\* outflow of each month 1..k and of no later month: against the trajectory of
\* the profile without the obligation, under the same seed, the balance of
\* month m is lower by monthly_amount times min(m, k).
C3_ObligationWindow ==
    \A kt \in Returned :
        \A j \in 1..Len(profile.obligations) :
            LET obl == profile.obligations[j]
                without == [profile EXCEPT !.obligations = RemoveAt(profile.obligations, j)]
                other == simulate_single_trajectory(without, kt[1], 0).balance
            IN  \A m \in Months :
                  other[m] - kt[2][m]
                    = Ticks(obl.monthly_amount)
                      * (IF m <= obl.remaining_months THEN m ELSE obl.remaining_months)

\* a returned trajectory of a profile with an obligation that ends inside the horizon
C3_Witness ==
    /\ Returned # {}
    /\ \E j \in 1..Len(profile.obligations) :
         profile.obligations[j].remaining_months < HorizonMonths

\* a run of `len` consecutive entries of the median series strictly below the
\* threshold, starting at entry s
BelowRun(median, threshold, s, len) ==
    /\ s + len - 1 <= HorizonMonths
    /\ \A m \in s..(s + len - 1) : median[m] < 100 * threshold

\* C4: identify_default returns true iff the median series holds at least
\* consecutive_months consecutive entries strictly below the threshold.
C4_DefaultIffRun ==
    ret.kind = "default" =>
        (ret.flag <=> \E s \in Months :
                        BelowRun(results.p50, ret.threshold, s, ret.consecutive_months))

\* identify_default returned false on a median series with a run of
\* consecutive_months - 1 entries below the threshold followed by an entry at
\* or above it
C4_Witness ==
    /\ ret.kind = "default" /\ ~ret.flag /\ ret.consecutive_months >= 2
    /\ \E s \in Months :
         /\ BelowRun(results.p50, ret.threshold, s, ret.consecutive_months - 1)
         /\ s + ret.consecutive_months - 1 <= HorizonMonths
         /\ results.p50[s + ret.consecutive_months - 1] >= 100 * ret.threshold

\* C5: for every month, calculate_stress_probability returns the number of
\* trajectories strictly below the threshold over n_simulations, a value
\* between 0 and 1.
C5_StressFraction ==
    ret.kind = "stress" =>
        /\ DOMAIN ret.stress_prob = 0..HorizonMonths
        /\ \A m \in Months :
             LET sp == ret.stress_prob[m]
             IN  /\ sp.den = NSimulations
                 /\ sp.num = Cardinality({i \in Sims :
                                            results.trajectories[i][m] < ret.threshold})
                 /\ 0 <= sp.num /\ sp.num <= sp.den

\* a stress series returned for an ensemble holding a balance equal to the threshold
C5_Witness ==
    /\ ret.kind = "stress"
    /\ \E i \in Sims, m \in Months :
         /\ results.trajectories[i][m] = ret.threshold
         /\ ret.stress_prob[m].num < NSimulations

\* C6: for the same profile and month and thresholds t1 <= t2, the stress
\* probability for t1 is at most the stress probability for t2.
C6_StressMonotone ==
    \A t1, t2 \in Thresholds :
        (t1 <= t2 /\ stressByThr[t1].kind = "stress" /\ stressByThr[t2].kind = "stress") =>
            \A m \in Months :
                stressByThr[t1].stress_prob[m].num * stressByThr[t2].stress_prob[m].den
                  <= stressByThr[t2].stress_prob[m].num * stressByThr[t1].stress_prob[m].den

\* both thresholds were asked for, and in some month the probabilities differ
C6_Witness ==
    \E t1, t2 \in Thresholds :
        /\ t1 < t2 /\ stressByThr[t1].kind = "stress" /\ stressByThr[t2].kind = "stress"
        /\ \E m \in Months :
             stressByThr[t1].stress_prob[m].num < stressByThr[t2].stress_prob[m].num

ProjectionOf(r) ==
    IF r.kind = "projection" THEN r.projection ELSE r.cashflow_projection

\* C7: in every result of run_monte_carlo and every entry of
\* get_cashflow_projection, p10 <= p50 (median) <= p90 for every month.
C7_PercentileOrder ==
    /\ results.kind = "results" =>
         \A m \in Months : results.p10[m] <= results.p50[m] /\ results.p50[m] <= results.p90[m]
    /\ ret.kind \in {"projection", "assessment"} =>
         \A m \in Months :
             /\ ProjectionOf(ret)[m].p10 <= ProjectionOf(ret)[m].median
             /\ ProjectionOf(ret)[m].median <= ProjectionOf(ret)[m].p90

\* a projection returned in which the three percentiles of some month differ
C7_Witness ==
    /\ ret.kind = "projection"
    /\ \E m \in Months :
         /\ ret.projection[m].p10 < ret.projection[m].median
         /\ ret.projection[m].median < ret.projection[m].p90

\* C8: when simulations run interleaved, every run produces exactly the
\* trajectory its seed produces when run alone (it draws from a source of its
\* own, not from a generator shared with the other runs).
C8_TasksIndependent ==
    \A i \in TaskIds :
        tasks[i].pc = "done" =>
            LET alone == simulate_single_trajectory(profile, i, 0)
            IN  /\ tasks[i].err = alone.err
                /\ ~alone.err => tasks[i].balance = alone.balance

MissingKey(p) ==
    \/ \E j \in 1..Len(p.income_streams) : "reliability" \notin DOMAIN p.income_streams[j]
    \/ \E j \in 1..Len(p.future_incomes) : "confidence" \notin DOMAIN p.future_incomes[j]

\* C9: the assessment of a profile with an income stream without 'reliability'
\* or a future income without 'confidence' never gets past extract_features:
\* no trajectory is simulated for it, it returns no assessment, and once it
\* has ended it has ended with the error extract_features raised.
C9_MissingKeyFails ==
    MissingKey(profile) =>
        /\ op = "assess_risk" => pc = "extract"
        /\ ret.kind # "assessment"
        /\ (ret.kind = "error" /\ ret.raised_by \in {"extract_features", "predict_risk"})
             => ret.raised_by = "extract_features"

\* the assessment of a profile whose future income lacks 'confidence' has failed
C9_Witness ==
    /\ \E j \in 1..Len(profile.future_incomes) :
         "confidence" \notin DOMAIN profile.future_incomes[j]
    /\ pc = "idle" /\ ret.kind = "error" /\ ret.raised_by = "extract_features"

\* the expected_date strings of the profiles that strptime must reject
UnparsableDates == {DateSlashes, Date20260230, Date20261301}

HasUnparsableDate(p) ==
    \E j \in 1..Len(p.future_incomes) : p.future_incomes[j].expected_date \in UnparsableDates

\* C10: a future income whose expected_date cannot be parsed contributes
\* nothing in any month and changes no other contribution (every returned
\* trajectory is the one of the profile without the entry, under the same
\* seed), and it does not abort the run: no simulation raises for it.
C10_BadDateSkipped ==
    (HasUnparsableDate(profile) /\ ~MissingKey(profile)) =>
        /\ \A kt \in Returned :
             \A j \in 1..Len(profile.future_incomes) :
                 profile.future_incomes[j].expected_date \in UnparsableDates =>
                     LET without == [profile EXCEPT
                                       !.future_incomes = RemoveAt(profile.future_incomes, j)]
                     IN  /\ DOMAIN kt[2] = 0..HorizonMonths
                         /\ kt[2] = simulate_single_trajectory(without, kt[1], 0).balance
        /\ ret.kind = "error" => ret.raised_by \in {"predict_risk", "get_model_service"}

\* a whole run returned for a profile with unparsable dates beside a valid one
\* that contributes
C10_Witness ==
    /\ HasUnparsableDate(profile)
    /\ pc = "returned" /\ results.kind = "results"
    /\ \E m \in 1..HorizonMonths : FutureIncome(profile, m) > 0

\* the keys of the dictionary assess_risk returns, as modelled
AssessmentFields ==
    {"kind", "status", "risk_score", "risk_category", "recommendation", "monthly_income",
     "monthly_expenses", "monthly_loan_payment", "debt_to_income_ratio",
     "net_monthly_cashflow", "risk_breakdown", "cashflow_projection",
     "default_probability_12_months", "default_probability_24_months", "buffer_months",
     "warnings", "recommendations_for_approval"}

\* C11: while the classifier is not loaded an assessment never gets past
\* predict_risk (no simulation of it is started) and returns no assessment;
\* nothing is handed to the caller while an assessment is in progress, and what
\* it gets in the end is an error or an assessment with every field filled in.
C11_NoPartialAssessment ==
    /\ ~loaded =>
         /\ op = "assess_risk" => pc \in {"extract", "predict"}
         /\ ret.kind # "assessment"
    /\ op = "assess_risk" => ret = NoValue
    /\ ret.kind = "assessment" =>
         /\ DOMAIN ret = AssessmentFields
         /\ ret.risk_score \in RiskScores
         /\ ret.risk_category \in {"low", "medium", "high", "very_high"}
         /\ ret.recommendation \in {"approve", "review", "reject"}
         /\ Len(ret.risk_breakdown) = 5
         /\ DOMAIN ret.cashflow_projection = Months
         /\ ret.default_probability_12_months.den = NSimulations
         /\ ret.default_probability_24_months.den = NSimulations

\* an assessment requested while the classifier is not loaded has ended with
\* the error of predict_risk
C11_Witness ==
    /\ created /\ ~loaded
    /\ pc = "idle" /\ ret.kind = "error" /\ ret.raised_by = "predict_risk"

\* C12: an assessment request that fails because the classifier is not loaded
\* is answered with the service-unavailable status, 503.
C12_NotLoadedIsUnavailable ==
    (ret.kind = "error" /\ ret.raised_by = "predict_risk") => ret.status = 503

\* C13: the recommendation is approve below 30, reject from 60 on and review
\* in between, whatever the debt-to-income ratio and the buffer months.
C13_Recommendation ==
    ret.kind = "scores" =>
        ret.recommendation = (IF ret.risk_score < 30 THEN "approve"
                              ELSE IF ret.risk_score >= 60 THEN "reject"
                              ELSE "review")

\* a score of the middle band, with a ratio and a buffer that pass the
\* additional checks, is still sent to review
C13_Witness ==
    /\ ret.kind = "scores" /\ ret.risk_score >= 30 /\ ret.risk_score < 60
    /\ FracLT(extract_features(profile).debt_to_income_ratio, 4)
    /\ FracGT(extract_features(profile).buffer_months, 30)
    /\ ret.recommendation = "review"

CategoryOf(score) ==
    IF score < 25 THEN "low"
    ELSE IF score >= 75 THEN "very_high"
    ELSE IF score >= 50 THEN "high"
    ELSE "medium"

\* C14: the risk category is low below 25, medium from 25 to below 50, high
\* from 50 to below 75 and very_high from 75 on, in the full assessment and in
\* the answer of the quick-score endpoint.
C14_Category ==
    ret.kind \in {"scores", "quick_score"} => ret.risk_category = CategoryOf(ret.risk_score)

\* both the assessment and the quick score have put a score of exactly 50 in 'high'
C14_Witness ==
    /\ ret.kind = "scores" /\ ret.risk_score = 50 /\ ret.risk_category = "high"
    /\ quick_risk_score(profile, TRUE, TRUE, 50).risk_category = "high"

\* C15: recommendations_for_approval is a non-empty list only for a score
\* strictly between 30 and 70; at 30 and below and at 70 and above it is None.
C15_RecommendationsBand ==
    ret.kind = "scores" =>
        /\ ret.recommendations_for_approval.kind = "list" =>
             /\ ret.risk_score > 30 /\ ret.risk_score < 70
             /\ ret.recommendations_for_approval.items # <<>>
        /\ (ret.risk_score <= 30 \/ ret.risk_score >= 70) =>
             ret.recommendations_for_approval = NoValue

\* a score of 70 passes the guard of assess_risk and still gets None
C15_Witness ==
    /\ ret.kind = "scores" /\ ret.risk_score = 70
    /\ ret.recommendations_for_approval = NoValue

\* the stress warnings among the warnings
StressOnly(warnings) == SelectSeq(warnings, LAMBDA w : w.warning = "stress")

\* the positions in [6, 12, 18, 24] whose entry has a stress probability above 0.5
StressHits(cashflow_projection) ==
    {k \in 1..Len(StressMonths) :
       LET sp == EntryAt(cashflow_projection, StressMonths[k]).stress_probability
       IN  2 * sp.num > sp.den}

\* C16: the warnings hold at most one stress warning; it is there exactly when
\* some month of 6, 12, 18, 24 has a stress probability above 0.5, and it names
\* the first such month.
C16_OneStressWarning ==
    ret.kind = "warnings" =>
        LET stress == StressOnly(ret.warnings)
            hits == StressHits(ret.cashflow_projection)
        IN  /\ Len(stress) <= 1
            /\ (stress = <<>>) <=> (hits = {})
            /\ hits # {} =>
                 \E k \in hits :
                     /\ \A h \in hits : k <= h
                     /\ stress[1].month = StressMonths[k]

\* month 6 is at exactly 0.5, two later months are above: one warning, for
\* the first of the two
C16_Witness ==
    /\ ret.kind = "warnings"
    /\ EntryAt(ret.cashflow_projection, 6).stress_probability = Frac(1, 2)
    /\ Cardinality(StressHits(ret.cashflow_projection)) >= 2
    /\ Len(StressOnly(ret.warnings)) = 1

\* the bands of the debt-burden score, in tenths of the ratio num / den
DebtBand(num, den) ==
    IF 10 * num < 2 * den THEN 100
    ELSE IF 10 * num < 3 * den THEN 85
    ELSE IF 10 * num < 4 * den THEN 70
    ELSE IF 10 * num < 5 * den THEN 50
    ELSE IF 10 * num < 6 * den THEN 30
    ELSE 10

DebtScore(p) == assess_debt_burden(extract_features(p))

\* obligations plus loan payment, in ticks, and the income in whole units
Debt(p) == MonthlyObligations(p) + FeatureLoanPayment(p)

IncomeUnits(p) == SumSeq([j \in 1..Len(p.income_streams) |-> p.income_streams[j].amount])

\* C17: for a profile with income, the debt-burden score is the step function
\* of (obligations + loan payment) / income with strict upper bounds, and no
\* profile with a larger ratio has a larger score.
C17_DebtBurdenSteps ==
    (ret.kind = "scores" /\ MonthlyIncome(profile) > 0) =>
        /\ ret.risk_breakdown[2].score = Points(DebtBand(Debt(profile), MonthlyIncome(profile)))
        /\ \A q \in RiskProfiles :
             (~ExtractFeaturesRaises(q) /\ MonthlyIncome(q) > 0
              /\ Debt(q) * IncomeUnits(profile) >= Debt(profile) * IncomeUnits(q))
                 => DebtScore(q) <= ret.risk_breakdown[2].score

\* a ratio of exactly 0.2 falls in the second band
C17_Witness ==
    /\ ret.kind = "scores"
    /\ MonthlyIncome(profile) > 0
    /\ 10 * Debt(profile) = 2 * MonthlyIncome(profile)
    /\ ret.risk_breakdown[2].score = Points(85)

\* C18: for a profile whose monthly income is 0, extract_features divides
\* nothing by the income, sets the three ratios to 999 and the margin to -999,
\* and the debt-burden and cashflow-margin scores are both 10.
C18_ZeroIncomeNoDivision ==
    (ret.kind = "features" /\ MonthlyIncome(profile) = 0) =>
        /\ DivisionsByIncome(profile) = {}
        /\ ~IsNaN(ret.features.income_volatility)
        /\ ret.features.debt_to_income_ratio = Frac(999, 1)
        /\ ret.features.fixed_expense_ratio = Frac(999, 1)
        /\ ret.features.expense_to_income_ratio = Frac(999, 1)
        /\ ret.features.cashflow_margin = Frac(0 - 999, 1)
        /\ assess_debt_burden(ret.features) = Points(10)
        /\ assess_cashflow_margin(ret.features) = Points(10)

BreakdownCategories ==
    <<"Income Stability", "Debt Burden", "Liquidity", "Cashflow Margin", "Expense Stability">>

\* C19: the breakdown has exactly the five entries, in order; every score is
\* between 0 and 100, and the status is good from 70 on, warning from 40 to
\* below 70 and critical below 40.
C19_Breakdown ==
    ret.kind = "scores" =>
        /\ Len(ret.risk_breakdown) = 5
        /\ \A j \in 1..5 :
             LET entry == ret.risk_breakdown[j]
             IN  /\ entry.category = BreakdownCategories[j]
                 /\ entry.score >= 0 /\ entry.score <= Points(100)
                 /\ (entry.status = "good") <=> (entry.score >= Points(70))
                 /\ (entry.status = "warning") <=>
                      (entry.score >= Points(40) /\ entry.score < Points(70))
                 /\ (entry.status = "critical") <=> (entry.score < Points(40))

\* a breakdown with a score of exactly 70 (good) beside an expense score that
\* was clamped to 0
C19_Witness ==
    /\ ret.kind = "scores"
    /\ ret.risk_breakdown[2].score = Points(70) /\ ret.risk_breakdown[2].status = "good"
    /\ ret.risk_breakdown[5].score = 0 /\ ret.risk_breakdown[5].status = "critical"
    /\ Points(100) - extract_features(profile).expense_volatility * 200 < 0

\* C20: the simulator and extract_features compute the same loan payment; at a
\* rate of 0 it is loan_amount / loan_duration_months, and at a positive rate
\* r = a / b a month it is the annuity P r (1 + r)^n / ((1 + r)^n - 1),
\* here rounded down to a tick.
C20_LoanPayment ==
    ret.kind = "loan_payment" =>
        LET P == Ticks(profile.loan_amount)
            n == profile.loan_duration_months
            g == Gcd(profile.loan_interest_rate, 1200)
            a == profile.loan_interest_rate \div g
            b == 1200 \div g
            num == P * a * Power(a + b, n)
            den == b * (Power(a + b, n) - Power(b, n))
        IN  /\ ret.simulator = ret.features
            /\ profile.loan_interest_rate = 0 =>
                 /\ den = 0
                 /\ ret.features * n <= P /\ P < (ret.features + 1) * n
            /\ profile.loan_interest_rate > 0 =>
                 /\ den > 0
                 /\ ret.features * den <= num /\ num < (ret.features + 1) * den

\* a zero-rate loan over several months, paid in equal parts
C20_Witness ==
    /\ ret.kind = "loan_payment"
    /\ profile.loan_interest_rate = 0 /\ profile.loan_duration_months > 1
    /\ ret.simulator * profile.loan_duration_months = Ticks(profile.loan_amount)

\* the calendar month of simulated month m
CalendarOf(m) == ((m - 1) % 12) + 1

\* the months of the horizon in which life event j of the profile is charged
EventMonths(j) ==
    {m \in AssessMonths : CalendarOf(m) = profile.life_events[j].start_month}

\* C21: a life event adds its expense_impact in every month of the horizon
\* whose calendar month ((m-1) mod 12)+1 is its start_month and in no other
\* month: the expense of a month is the sum of the events of that calendar
\* month, and each event is charged exactly twice in the 24 months, 12 months
\* apart.
C21_EventsRecurYearly ==
    ret.kind = "month_terms" =>
        /\ \A m \in AssessMonths :
             ret.event_expense[m] =
                 SumSeq([j \in 1..Len(profile.life_events) |->
                           IF m \in EventMonths(j)
                           THEN profile.life_events[j].expense_impact * 1000 ELSE 0])
        /\ \A j \in 1..Len(profile.life_events) :
             /\ Cardinality(EventMonths(j)) = 2
             /\ \A m \in EventMonths(j) :
                  /\ ret.event_expense[m] >= profile.life_events[j].expense_impact * 1000
                  /\ m + 12 \in EventMonths(j) \/ m - 12 \in EventMonths(j)

\* the December event is charged in months 12 and 24, the two February events
\* together in months 2 and 14, and month 13 is free of events
C21_Witness ==
    /\ ret.kind = "month_terms"
    /\ Len(profile.life_events) = 3
    /\ ret.event_expense[12] = 25000 /\ ret.event_expense[24] = 25000
    /\ ret.event_expense[2] = 55000 /\ ret.event_expense[14] = 55000
    /\ ret.event_expense[13] = 0

\* the month offsets of the expected dates the profiles use, counted by hand
\* from January 2026 = 0; no offset for a string that is not a date
DateOffsets ==
    (Date20260120 :> 0) @@ (Date20260201 :> 1) @@ (Date20260315 :> 2)
    @@ (Date20270110 :> 12) @@ (Date20270305 :> 14) @@ (Date20280115 :> 24)
    @@ (Date20280201 :> 25)

\* the confidence factors, in thousandths
Factors == [high |-> 1000, medium |-> 800, low |-> 600]

\* the future-income entries with a valid date and a confidence
ValidEntries ==
    {j \in 1..Len(profile.future_incomes) :
        /\ profile.future_incomes[j].expected_date \in DOMAIN DateOffsets
        /\ HasKey(profile.future_incomes[j], "confidence")}

\* what entry j adds in month m, in ticks
EntryShare(j, m) ==
    IF j \in ValidEntries /\ DateOffsets[profile.future_incomes[j].expected_date] = m
    THEN profile.future_incomes[j].expected_amount
         * Factors[profile.future_incomes[j].confidence]
    ELSE 0

\* C22: a future-income entry with a valid date adds expected_amount times its
\* confidence factor (1.0, 0.8, 0.6) in exactly the month equal to its offset
\* (year - 2026) * 12 + month - 1, and nothing in any other month; an entry
\* whose offset is outside the horizon adds nothing at all.
C22_FutureIncomeAtOffset ==
    ret.kind = "month_terms" =>
        /\ \A m \in AssessMonths :
             ret.future_income[m] =
                 SumSeq([j \in 1..Len(profile.future_incomes) |-> EntryShare(j, m)])
        /\ SumSeq([m \in AssessMonths |-> ret.future_income[m]]) =
               SumSeq([j \in 1..Len(profile.future_incomes) |->
                         IF j \in ValidEntries
                            /\ DateOffsets[profile.future_incomes[j].expected_date]
                                   \in AssessMonths
                         THEN profile.future_incomes[j].expected_amount
                              * Factors[profile.future_incomes[j].confidence]
                         ELSE 0])

\* entries due in months 0 and 25 add nothing, the low one adds 0.6 of 50 in
\* month 14 and the medium one 0.8 of 70 in month 24
C22_Witness ==
    /\ ret.kind = "month_terms"
    /\ Len(profile.future_incomes) = 4
    /\ ret.future_income[14] = 30000
    /\ ret.future_income[24] = 56000
    /\ \A m \in AssessMonths \ {14, 24} : ret.future_income[m] = 0

\* a step in which run_monte_carlo computes its aggregate
Aggregates == results' # results \/ (pc = "mc_loop" /\ pc' = "returned")

\* C23: no percentile and no mean is computed before all n_simulations
\* trajectories are completed and stored: a step that computes the aggregate
\* starts with the loop at n_simulations, every row of the array holding the
\* finished trajectory of its seed, and every aggregate series is the
\* percentile or mean of a full column.
C23_FullBarrier ==
    [][Aggregates =>
         /\ pc = "mc_loop" /\ loop.i = NSimulations
         /\ \A i \in Sims :
              LET t == simulate_single_trajectory(profile, i, rng)
              IN  ~t.err /\ loop.trajectories[i] = t.balance
         /\ results'.trajectories = loop.trajectories
         /\ \A m \in Months :
              /\ results'.p10[m] = Percentile(Column(loop.trajectories, m), 10)
              /\ results'.p50[m] = Percentile(Column(loop.trajectories, m), 50)
              /\ results'.p90[m] = Percentile(Column(loop.trajectories, m), 90)
              /\ results'.mean[m].num = SumSeq(Column(loop.trajectories, m))
              /\ results'.mean[m].den = NSimulations]_vars

\* an aggregate over trajectories that differ from one another, so that a
\* partial set would have given other percentiles
C23_Witness ==
    /\ pc = "returned"
    /\ results.kind = "results"
    /\ \A i, j \in Sims :
         i # j => results.trajectories[i][HorizonMonths] # results.trajectories[j][HorizonMonths]
    /\ results.p10[HorizonMonths] < results.p50[HorizonMonths]
    /\ results.p50[HorizonMonths] < results.p90[HorizonMonths]

\* the per-month median of an ensemble, times 100
MedianOf(trajectories) ==
    [m \in Months |-> Percentile(Column(trajectories, m), 50)]

\* the result of identify_default on an ensemble
FlagOf(trajectories, threshold, consecutive_months) ==
    DefaultScan(DefaultSeries(Aggregate(trajectories)), threshold, consecutive_months, 0, 0)

\* trajectory i of the ensemble has a run of len balances below the threshold
TrajectoryRun(trajectories, i, threshold, len) ==
    \E s \in Months :
        /\ s + len - 1 <= HorizonMonths
        /\ \A m \in s..(s + len - 1) : trajectories[i][m] < threshold

\* C27: the default flag depends only on the median series: any two ensembles
\* with the same median in every month get the same result, and the flag is
\* false whenever the median series has no run of consecutive_months entries
\* below the threshold, whatever the individual trajectories do.
C27_MedianOnly ==
    ret.kind = "default" =>
        /\ \A other \in Ensembles :
             MedianOf(other) = MedianOf(results.trajectories) =>
                 FlagOf(other, ret.threshold, ret.consecutive_months) = ret.flag
        /\ (~\E s \in Months :
               BelowRun(MedianOf(results.trajectories), ret.threshold, s,
                        ret.consecutive_months)) => ~ret.flag

\* no default is flagged although one trajectory stays below the threshold
\* for consecutive_months months, and another ensemble has the same median
C27_Witness ==
    /\ ret.kind = "default" /\ ~ret.flag
    /\ \E i \in Sims :
         TrajectoryRun(results.trajectories, i, ret.threshold, ret.consecutive_months)
    /\ \E other \in Ensembles :
         /\ other # results.trajectories
         /\ MedianOf(other) = MedianOf(results.trajectories)

\* C28: run_monte_carlo holds no mutable state across calls; in particular,
\* when it returns, the random generator it shares with other code is in the
\* state it was in when the call was made.
C28_GeneratorUntouched ==
    (pc = "returned" /\ op = "run_monte_carlo") => rng = hist.generator

\* the number of trajectories of an ensemble below the threshold in month m
CountBelow(trajectories, m) ==
    Cardinality({i \in Sims : trajectories[i][m] < DefaultThreshold})

\* C29: the percentiles and the stress probability of a projection describe
\* the same ensemble: the second Monte Carlo run of get_cashflow_projection
\* ends with the trajectories of the first, every entry's stress probability
\* is the fraction of those trajectories below -500, and where it exceeds 0.5
\* the median of the entry is strictly below -500.
C29_SameEnsemble ==
    /\ (pc = "returned" /\ run = 2) =>
         /\ saved.kind = "results"
         /\ results.trajectories = saved.trajectories
         /\ results.p10 = saved.p10 /\ results.p50 = saved.p50 /\ results.p90 = saved.p90
    /\ ret.kind \in {"projection", "assessment"} =>
         \A m \in Months :
             LET entry == ProjectionOf(ret)[m]
             IN  /\ entry.median = saved.p50[m]
                 /\ entry.p10 = saved.p10[m] /\ entry.p90 = saved.p90[m]
                 /\ entry.stress_probability.num = CountBelow(saved.trajectories, m)
                 /\ entry.stress_probability.den = NSimulations
                 /\ 2 * entry.stress_probability.num > entry.stress_probability.den
                      => entry.median < 100 * DefaultThreshold

\* a projection with a month in which most trajectories and the median are
\* below -500, and a month in which most are below 0 but not below -500
C29_Witness ==
    /\ ret.kind = "projection"
    /\ \E m \in Months :
         /\ 2 * ProjectionOf(ret)[m].stress_probability.num > NSimulations
         /\ ProjectionOf(ret)[m].median < 100 * DefaultThreshold
    /\ \E m \in Months :
         /\ 2 * Cardinality({i \in Sims : saved.trajectories[i][m] < 0}) > NSimulations
         /\ ProjectionOf(ret)[m].median >= 100 * DefaultThreshold

\* C30: for every risk score, quick_risk_score returns the recommendation the
\* full assessment returns for that score.
C30_QuickMatchesFull ==
    (ret.kind = "quick_score" /\ ~ExtractFeaturesRaises(profile)) =>
        ret.recommendation = get_recommendation(ret.risk_score, extract_features(profile))

\* the twin create_digital_twin builds for a twin_id nobody posted a profile
\* for: the schema's defaults, an income of 2000.00 and one dependent
IsDefaultTwin(twin, twin_id) ==
    /\ twin.twin_id = twin_id
    /\ twin.profile.user_id = twin_id
    /\ twin.baseline.monthly_income = 200000
    /\ twin.profile.dependents = 1

\* C24: every request to a twin endpoint succeeds, whatever was called before
\* and whether or not a twin exists for the id; afterwards twins_db holds an
\* entry for the requested id, every entry carries the id it is stored under,
\* an id without a twin got the default twin, and no endpoint but create
\* replaces a stored twin: get returns the twin as it was stored.
C24_TwinOnDemand ==
    [][LET twin_id == args'.twin_id
       IN  /\ ret'.kind = "response" /\ ret'.status \in {200, 201}
           /\ twin_id \in DOMAIN twins_db'
           /\ \A id \in DOMAIN twins_db' : twins_db'[id].twin_id = id
           /\ DOMAIN twins_db' = DOMAIN twins_db \cup {twin_id}
           /\ \A id \in DOMAIN twins_db :
                (id # twin_id \/ args'.endpoint # "create_twin")
                    => twins_db'[id] = twins_db[id]
           /\ (twin_id \notin DOMAIN twins_db /\ args'.endpoint # "create_twin")
                => IsDefaultTwin(twins_db'[twin_id], twin_id)
           /\ args'.endpoint = "get_twin" =>
                /\ ret'.body = twins_db'[twin_id]
                /\ twin_id \in DOMAIN twins_db => ret'.body = twins_db[twin_id]]_vars

\* get returned a posted twin as stored, while the other id holds the default
\* twin made for a request
C24_Witness ==
    /\ args.endpoint = "get_twin"
    /\ ret.body = twins_db[args.twin_id]
    /\ ret.body.baseline.monthly_income = 300000
    /\ \E id \in DOMAIN twins_db : id # args.twin_id /\ IsDefaultTwin(twins_db[id], id)

\* the recommendation of the latest recommend-loan response
Rec == ret.body.recommendation

\* C25: recommend_loan returns eligible = true iff recommended is not null;
\* with a positive surplus it lists exactly the terms 12, 24 and 36, an option
\* is affordable iff its payment is at most 40% of the surplus, and the
\* recommended option is an affordable one with the least total_interest
\* among the affordable ones.
C25_LoanRecommendation ==
    args.endpoint = "recommend_loan" =>
        LET baseline == twins_db[args.twin_id].baseline
            surplus == baseline.monthly_income - baseline.total_expenses
            recommended == IF HasKey(Rec, "recommended") THEN Rec.recommended ELSE NoValue
        IN  /\ Rec.eligible <=> recommended.kind # "none"
            /\ surplus > 0 =>
                 /\ DOMAIN Rec.options = 1..3
                 /\ \A i \in 1..3 :
                      /\ Rec.options[i].term_months = 12 * i
                      /\ Rec.options[i].affordable <=>
                             LoanPayment(args.amount_needed, 12 * i) * 10 <= surplus * 1000 * 4
                 /\ recommended.kind # "none" =>
                      /\ \E i \in 1..3 : Rec.options[i] = recommended
                      /\ recommended.affordable
                      /\ \A i \in 1..3 :
                           Rec.options[i].affordable =>
                               recommended.total_interest <= Rec.options[i].total_interest
                 /\ recommended.kind = "none" => \A i \in 1..3 : ~Rec.options[i].affordable

\* the default twin asks for 2000: the 12-month payment of 175.83 is above
\* 40% of the surplus of 420.00, so of the two affordable options the 24-month
\* one, with less interest than the 36-month one, is recommended
C25_Witness ==
    /\ args.endpoint = "recommend_loan"
    /\ Rec.eligible
    /\ ~Rec.options[1].affordable /\ Rec.options[2].affordable /\ Rec.options[3].affordable
    /\ Rec.options[1].monthly_payment = 17583
    /\ Rec.recommended.term_months = 24
    /\ Rec.recommended.total_interest < Rec.options[3].total_interest

\* C26: for every valid profile, the baseline's total_expenses is the sum of
\* the per-category amounts, strictly greater than 0 and strictly less than
\* monthly_income.
C26_ExpensesWithinIncome ==
    args.endpoint = "create_twin" =>
        LET baseline == ret.body.baseline
        IN  /\ baseline.total_expenses =
                   SumSeq([i \in 1..Len(ExpenseCategories) |->
                             baseline.monthly_expenses[ExpenseCategories[i]]])
            /\ baseline.total_expenses > 0
            /\ baseline.total_expenses < baseline.monthly_income

=============================================================================
